---- MODULE Spec2Model ----
(***************************************************************************)
(* Model of the options core of darter-bot:                                *)
(*   - OptionsStrategy._select_options_strategy (src/options_strategy.py)  *)
(*   - GreekOptimizer scorers               (src/greek_optimizer.py)       *)
(*   - OptionsBacktest.run                  (src/options_backtest.py)      *)
(*                                                                         *)
(* Number representation.  The program computes in binary floating point.  *)
(* The model computes the same quantities exactly, as integers in fixed    *)
(* units, on input grids where every intermediate value is representable:  *)
(*   per-share prices and strikes : cents on input, 1/100 cent internally  *)
(*   percentages                  : integer percent                        *)
(*   cash, holdings, portfolio    : 1/30 dollar (30 = the days-to-expiry   *)
(*                                  divisor of the credit-spread model)    *)
(***************************************************************************)
EXTENDS Integers, Sequences, FiniteSets, TLC

----------------------------------------------------------------------------
(* Bounds of the model *)

\* longest simulated price series (number of bars, bar 0 included)
MaxBars == 5

----------------------------------------------------------------------------
(* Arithmetic helpers *)

Abs(x) == IF x < 0 THEN -x ELSE x

Min(a, b) == IF a <= b THEN a ELSE b

Max(a, b) == IF a >= b THEN a ELSE b

\* Python int(a / b) for b # 0: truncation toward zero
Trunc(a, b) == IF (a >= 0) = (b > 0) THEN Abs(a) \div Abs(b) ELSE -(Abs(a) \div Abs(b))

\* number of cash units (1/30 dollar) in one dollar;
\* the source's "Assume 30 days to expiration" divisor
DaysToExpiration == 30

Dollars(d) == d * DaysToExpiration

----------------------------------------------------------------------------
(* Values shared by the selector and the simulator *)

\* an absent leg (Python None)
NoLeg == [present |-> FALSE, hasPrice |-> FALSE, strike |-> 0, lastPrice |-> 0]

\* a leg carrying a full chain row (strike and lastPrice, in cents)
Leg(strike, lastPrice) ==
    [present |-> TRUE, hasPrice |-> TRUE, strike |-> strike, lastPrice |-> lastPrice]

\* a leg built by the Greek path: {'strike': ...} only, no 'lastPrice' key
StrikeOnlyLeg(strike) ==
    [present |-> TRUE, hasPrice |-> FALSE, strike |-> strike, lastPrice |-> 0]

SingleLegKinds == {"LONG_CALL", "LONG_PUT"}

CreditSpreadKinds == {"BULL_PUT_SPREAD", "BEAR_CALL_SPREAD"}

ExitReasons == {"Stop Loss", "Take Profit", "Max Days", "Signal Reversal"}

----------------------------------------------------------------------------
(* Option chain snapshot and strategy signal *)

\* one row of options_data['calls'] / options_data['puts']:
\*   strike, lastPrice in cents; impliedVolatility in percent;
\*   delta, gamma, theta in hundredths; openInterest, volume as counts
Contract(strike, lastPrice, iv, delta, gamma, theta, oi, volume) ==
    [strike |-> strike, lastPrice |-> lastPrice, impliedVolatility |-> iv,
     delta |-> delta, gamma |-> gamma, theta |-> theta,
     openInterest |-> oi, volume |-> volume]

\* options_data[symbol]:
\*   hasExpiry    'expiry' in options_data
\*   hasGreeks    the delta, gamma, theta columns exist
\*   hasLiquidity the openInterest and volume columns exist
\*   current_price options_data['current_price'] (0 when the key is missing)
OptionsData(hasExpiry, hasGreeks, hasLiquidity, current_price, calls, puts) ==
    [hasExpiry |-> hasExpiry, hasGreeks |-> hasGreeks, hasLiquidity |-> hasLiquidity,
     current_price |-> current_price, calls |-> calls, puts |-> puts]

\* the leg of a signal that holds the whole chain row c
RowLeg(c) == Leg(c.strike, c.lastPrice)

\* _select_options_strategy returned None
NoSignal ==
    [strategy |-> "None", signal |-> "None",
     option |-> NoLeg, sell_option |-> NoLeg, buy_option |-> NoLeg,
     sell_call |-> NoLeg, sell_put |-> NoLeg, buy_call |-> NoLeg, buy_put |-> NoLeg,
     call |-> NoLeg, put |-> NoLeg,
     has_contracts |-> FALSE, contracts |-> 0,
     net_credit |-> 0, max_risk |-> 0, greek_optimized |-> FALSE]

\* a scorer returned None
NoTrade == [strategy |-> "None"]

\* the strategy kinds of the data model
StrategyKinds ==
    {"LONG_CALL", "LONG_PUT", "BULL_PUT_SPREAD", "BEAR_CALL_SPREAD", "IRON_CONDOR",
     "LONG_STRADDLE", "CALL_CREDIT_SPREAD", "PUT_CREDIT_SPREAD", "DEFAULT"}

\* str.upper() on the lower-case names the program uses
Upper(name) ==
    CASE name = "directional" -> "DIRECTIONAL"
      [] name = "call_credit_spread" -> "CALL_CREDIT_SPREAD"
      [] name = "put_credit_spread" -> "PUT_CREDIT_SPREAD"
      [] name = "bullish" -> "BULLISH"
      [] name = "bearish" -> "BEARISH"
      [] name = "neutral" -> "NEUTRAL"
      [] name = "long_call" -> "LONG_CALL"
      [] name = "long_put" -> "LONG_PUT"
      [] name = "iron_condor" -> "IRON_CONDOR"
      [] OTHER -> name

\* the position of the last smallest key (not what idxmin returns)
IdxMinLast(keys) ==
    CHOOSE i \in 1..Len(keys) :
        /\ \A j \in 1..Len(keys) : keys[i] <= keys[j]
        /\ \A j \in (i + 1)..Len(keys) : keys[j] > keys[i]

\* Series.idxmin(): the position of the first smallest key
IdxMin(keys) ==
    CHOOSE i \in 1..Len(keys) :
        /\ \A j \in 1..Len(keys) : keys[i] <= keys[j]
        /\ \A j \in 1..(i - 1) : keys[j] > keys[i]

\* Series.idxmax(): the position of the first largest key
IdxMax(keys) ==
    CHOOSE i \in 1..Len(keys) :
        /\ \A j \in 1..Len(keys) : keys[i] >= keys[j]
        /\ \A j \in 1..(i - 1) : keys[j] < keys[i]

----------------------------------------------------------------------------
(* GreekOptimizer *)

min_open_interest == 100

min_volume == 10

\* delta_threshold 0.5, in hundredths
delta_threshold == 50

\* gamma_threshold 0.1, in hundredths
gamma_threshold == 10

\* theta_threshold -0.1, in hundredths
theta_threshold == -10

\* the liquidity filter of the scorers
IsLiquid(c) == c.openInterest >= min_open_interest /\ c.volume >= min_volume

\* the position size without the floor of one contract
MaxContractsUnfloored(risk_capital, per_contract) == Trunc(risk_capital, per_contract)

\* max_contracts = int(risk_capital / (per_contract * 100)), floored to 1;
\* per_contract in cents, risk_capital in dollars
MaxContracts(risk_capital, per_contract) ==
    IF Trunc(risk_capital, per_contract) < 1 THEN 1 ELSE Trunc(risk_capital, per_contract)

\* total_score of the directional scorer, in thousandths
TotalScore(c) ==
    5 * (100 - Abs(c.delta - delta_threshold))
    + 30 * Min((c.gamma * 10) \div gamma_threshold, 10)
    + 20 * Min(10, Max(0, ((c.theta - theta_threshold) * 10) \div Abs(theta_threshold)))

\* optimize_directional_trade
OptimizeDirectionalTrade(options_data, direction, risk_capital) ==
    LET options_df == IF direction = "bullish" THEN options_data.calls ELSE options_data.puts
        filtered == SelectSeq(options_df, IsLiquid)
        liquid_options == IF filtered = <<>> THEN options_df ELSE filtered
        best_option == liquid_options[IdxMax([i \in 1..Len(liquid_options) |-> TotalScore(liquid_options[i])])]
        option_price == best_option.lastPrice
    IN  IF direction \notin {"bullish", "bearish"} THEN NoTrade
        ELSE IF options_df = <<>> THEN NoTrade
        \* a missing column makes the filter or a score raise; the except returns None
        ELSE IF ~options_data.hasLiquidity \/ ~options_data.hasGreeks THEN NoTrade
        \* int(inf) raises OverflowError; the except returns None
        ELSE IF option_price = 0 THEN NoTrade
        ELSE [strategy |-> "directional", direction |-> direction,
              strike |-> best_option.strike, price |-> option_price,
              contracts |-> MaxContracts(risk_capital, option_price)]

\* delta_diff = abs(delta - 0.25), in hundredths; without a delta column the
\* default 0.5 gives every row the same key
DeltaDiff(c, hasGreeks) == IF hasGreeks THEN Abs(c.delta - 25) ELSE 25

\* the rows of a frame with the smallest / largest strike (sort_values + iloc[0])
LowestStrike(rows) == rows[IdxMin([i \in 1..Len(rows) |-> rows[i].strike])]

HighestStrike(rows) == rows[IdxMax([i \in 1..Len(rows) |-> rows[i].strike])]

\* optimize_volatility_trade
OptimizeVolatilityTrade(options_data, volatility_outlook, risk_capital) ==
    LET calls == options_data.calls
        puts  == options_data.puts
        current_price == options_data.current_price
        StrikeDiff(c) == Abs(c.strike - current_price)
        atm_call == calls[IdxMin([i \in 1..Len(calls) |-> StrikeDiff(calls[i])])]
        atm_put  == puts[IdxMin([i \in 1..Len(puts) |-> StrikeDiff(puts[i])])]
        total_price == atm_call.lastPrice + atm_put.lastPrice
        \* sort_values('strike') keeps the strike order; idxmin takes the first minimum
        otm_calls == SelectSeq(calls, LAMBDA c : c.strike > current_price)
        otm_puts  == SelectSeq(puts, LAMBDA c : c.strike < current_price)
        MinDiff(rows) == {c \in {rows[i] : i \in 1..Len(rows)} :
                             \A i \in 1..Len(rows) :
                                 DeltaDiff(c, options_data.hasGreeks)
                                    <= DeltaDiff(rows[i], options_data.hasGreeks)}
        short_call == CHOOSE c \in MinDiff(otm_calls) :
                          \A d \in MinDiff(otm_calls) : c.strike <= d.strike
        short_put  == CHOOSE c \in MinDiff(otm_puts) :
                          \A d \in MinDiff(otm_puts) : c.strike >= d.strike
        further_otm_calls == SelectSeq(calls, LAMBDA c : c.strike > short_call.strike)
        further_otm_puts  == SelectSeq(puts, LAMBDA c : c.strike < short_put.strike)
        long_call == LowestStrike(further_otm_calls)
        long_put  == HighestStrike(further_otm_puts)
        net_credit == (short_call.lastPrice + short_put.lastPrice)
                      - (long_call.lastPrice + long_put.lastPrice)
        call_spread_width == long_call.strike - short_call.strike
        put_spread_width  == short_put.strike - long_put.strike
        max_risk == Max(call_spread_width, put_spread_width) - net_credit
    IN  IF volatility_outlook \notin {"increasing", "decreasing"} THEN NoTrade
        ELSE IF calls = <<>> \/ puts = <<>> THEN NoTrade
        ELSE IF current_price = 0 THEN NoTrade
        ELSE IF volatility_outlook = "increasing" THEN
            IF total_price = 0 THEN NoTrade
            ELSE [strategy |-> "long_straddle",
                  call_strike |-> atm_call.strike, put_strike |-> atm_put.strike,
                  call_price |-> atm_call.lastPrice, put_price |-> atm_put.lastPrice,
                  contracts |-> MaxContracts(risk_capital, total_price)]
        ELSE IF otm_calls = <<>> \/ otm_puts = <<>> THEN NoTrade
        ELSE IF further_otm_calls = <<>> \/ further_otm_puts = <<>> THEN NoTrade
        ELSE IF max_risk = 0 THEN NoTrade
        ELSE [strategy |-> "iron_condor",
              short_call_strike |-> short_call.strike, long_call_strike |-> long_call.strike,
              short_put_strike |-> short_put.strike, long_put_strike |-> long_put.strike,
              net_credit |-> net_credit, max_risk |-> max_risk,
              contracts |-> MaxContracts(risk_capital, max_risk)]

\* theta_score = abs(theta) if theta < 0 else 0
ThetaScore(c) == IF c.theta < 0 THEN Abs(c.theta) ELSE 0

\* _create_call_credit_spread
CreateCallCreditSpread(calls, risk_capital) ==
    LET short_call == calls[IdxMax([i \in 1..Len(calls) |-> ThetaScore(calls[i])])]
        long_calls == SelectSeq(calls, LAMBDA c : c.strike > short_call.strike)
        long_call  == LowestStrike(long_calls)
        net_credit == short_call.lastPrice - long_call.lastPrice
        max_risk   == (long_call.strike - short_call.strike) - net_credit
    IN  IF long_calls = <<>> THEN NoTrade
        ELSE IF max_risk = 0 THEN NoTrade
        ELSE [strategy |-> "call_credit_spread",
              short_strike |-> short_call.strike, long_strike |-> long_call.strike,
              net_credit |-> net_credit, max_risk |-> max_risk,
              contracts |-> MaxContracts(risk_capital, max_risk)]

\* variant: the long put is taken from the strikes above the short put
CreatePutCreditSpreadAbove(puts, risk_capital) ==
    LET short_put == puts[IdxMax([i \in 1..Len(puts) |-> ThetaScore(puts[i])])]
        long_puts == SelectSeq(puts, LAMBDA c : c.strike > short_put.strike)
        long_put  == HighestStrike(long_puts)
        net_credit == short_put.lastPrice - long_put.lastPrice
        max_risk   == (short_put.strike - long_put.strike) - net_credit
    IN  IF long_puts = <<>> THEN NoTrade
        ELSE IF max_risk = 0 THEN NoTrade
        ELSE [strategy |-> "put_credit_spread",
              short_strike |-> short_put.strike, long_strike |-> long_put.strike,
              net_credit |-> net_credit, max_risk |-> max_risk,
              contracts |-> MaxContracts(risk_capital, max_risk)]

\* _create_put_credit_spread
CreatePutCreditSpread(puts, risk_capital) ==
    LET short_put == puts[IdxMax([i \in 1..Len(puts) |-> ThetaScore(puts[i])])]
        long_puts == SelectSeq(puts, LAMBDA c : c.strike < short_put.strike)
        long_put  == HighestStrike(long_puts)
        net_credit == short_put.lastPrice - long_put.lastPrice
        max_risk   == (short_put.strike - long_put.strike) - net_credit
    IN  IF long_puts = <<>> THEN NoTrade
        ELSE IF max_risk = 0 THEN NoTrade
        ELSE [strategy |-> "put_credit_spread",
              short_strike |-> short_put.strike, long_strike |-> long_put.strike,
              net_credit |-> net_credit, max_risk |-> max_risk,
              contracts |-> MaxContracts(risk_capital, max_risk)]

\* optimize_theta_decay_trade
OptimizeThetaDecayTrade(options_data, risk_capital) ==
    LET calls == options_data.calls
        puts  == options_data.puts
        liquid_calls == SelectSeq(calls, IsLiquid)
        liquid_puts  == SelectSeq(puts, IsLiquid)
        best_call_theta == ThetaScore(liquid_calls[IdxMax([i \in 1..Len(liquid_calls) |-> ThetaScore(liquid_calls[i])])])
        best_put_theta  == ThetaScore(liquid_puts[IdxMax([i \in 1..Len(liquid_puts) |-> ThetaScore(liquid_puts[i])])])
    IN  IF calls = <<>> \/ puts = <<>> THEN NoTrade
        ELSE IF ~options_data.hasGreeks \/ ~options_data.hasLiquidity THEN NoTrade
        ELSE IF liquid_calls = <<>> /\ liquid_puts = <<>> THEN NoTrade
        ELSE IF liquid_calls # <<>> /\ liquid_puts # <<>> THEN
            IF best_call_theta >= best_put_theta
            THEN CreateCallCreditSpread(liquid_calls, risk_capital)
            ELSE CreatePutCreditSpread(liquid_puts, risk_capital)
        ELSE IF liquid_calls # <<>> THEN CreateCallCreditSpread(liquid_calls, risk_capital)
        ELSE CreatePutCreditSpread(liquid_puts, risk_capital)

----------------------------------------------------------------------------
(* OptionsStrategy._select_options_strategy *)

\* iv_threshold of the bullish and bearish selection, in percent
iv_threshold == 50

\* call_otm_pct and put_otm_pct of strike_selection, in percent
call_otm_pct == 5

put_otm_pct == 5

\* the configuration the selector reads
SelectorConfig(use_greeks, default_strategy, volatility_bias, bullish_low_iv, bullish_high_iv, bearish_low_iv, bearish_high_iv, neutral_default, risk_capital) ==
    [use_greek_optimization |-> use_greeks, default_strategy |-> default_strategy,
     volatility_bias |-> volatility_bias,
     bullish_low_iv |-> bullish_low_iv, bullish_high_iv |-> bullish_high_iv,
     bearish_low_iv |-> bearish_low_iv, bearish_high_iv |-> bearish_high_iv,
     neutral_default |-> neutral_default, risk_capital |-> risk_capital]

\* the scorer the Greek path delegates to
GreekTrade(market_signal, options_data, config) ==
    IF market_signal = "bullish"
    THEN OptimizeDirectionalTrade(options_data, "bullish", config.risk_capital)
    ELSE IF market_signal = "bearish"
    THEN OptimizeDirectionalTrade(options_data, "bearish", config.risk_capital)
    ELSE IF config.volatility_bias = "increasing"
    THEN OptimizeVolatilityTrade(options_data, "increasing", config.risk_capital)
    ELSE IF config.volatility_bias = "decreasing"
    THEN OptimizeVolatilityTrade(options_data, "decreasing", config.risk_capital)
    ELSE OptimizeThetaDecayTrade(options_data, config.risk_capital)

\* "Convert to our standard signal format"
GreekSignal(market_signal, trade) ==
    IF trade.strategy = "directional" THEN
        [NoSignal EXCEPT !.signal = Upper(market_signal),
                         !.strategy = Upper(trade.strategy),
                         !.option = Leg(trade.strike, trade.price),
                         !.has_contracts = TRUE, !.contracts = trade.contracts,
                         !.greek_optimized = TRUE]
    ELSE IF trade.strategy = "iron_condor" THEN
        [NoSignal EXCEPT !.signal = "NEUTRAL", !.strategy = "IRON_CONDOR",
                         !.sell_call = StrikeOnlyLeg(trade.short_call_strike),
                         !.buy_call = StrikeOnlyLeg(trade.long_call_strike),
                         !.sell_put = StrikeOnlyLeg(trade.short_put_strike),
                         !.buy_put = StrikeOnlyLeg(trade.long_put_strike),
                         !.has_contracts = TRUE, !.contracts = trade.contracts,
                         !.net_credit = trade.net_credit, !.max_risk = trade.max_risk,
                         !.greek_optimized = TRUE]
    ELSE IF trade.strategy = "long_straddle" THEN
        [NoSignal EXCEPT !.signal = "NEUTRAL", !.strategy = "LONG_STRADDLE",
                         !.call = Leg(trade.call_strike, trade.call_price),
                         !.put = Leg(trade.put_strike, trade.put_price),
                         !.has_contracts = TRUE, !.contracts = trade.contracts,
                         !.greek_optimized = TRUE]
    ELSE
        [NoSignal EXCEPT !.signal = "NEUTRAL", !.strategy = Upper(trade.strategy),
                         !.sell_option = StrikeOnlyLeg(trade.short_strike),
                         !.buy_option = StrikeOnlyLeg(trade.long_strike),
                         !.has_contracts = TRUE, !.contracts = trade.contracts,
                         !.net_credit = trade.net_credit, !.max_risk = trade.max_risk,
                         !.greek_optimized = TRUE]

\* the first row of a frame (iloc[0]) or None when the frame is empty
FirstOrNone(rows) == IF rows = <<>> THEN NoLeg ELSE RowLeg(rows[1])

\* a selection that returns None where no configured strategy name matched
DefaultSignalNone(market_signal, atm_call, atm_put) == NoSignal

\* "Default to a simple strategy if no specific strategy matched"
DefaultSignal(market_signal, atm_call, atm_put) ==
    [NoSignal EXCEPT !.signal = Upper(market_signal), !.strategy = "DEFAULT",
                     !.call = RowLeg(atm_call), !.put = RowLeg(atm_put)]

\* the traditional (rule-based) selection
RuleBasedSignal(market_signal, current_price, options_data, config) ==
    LET calls == options_data.calls
        puts  == options_data.puts
        StrikeDiff(c) == Abs(c.strike - current_price)
        atm_call == calls[IdxMin([i \in 1..Len(calls) |-> StrikeDiff(calls[i])])]
        atm_put  == puts[IdxMin([i \in 1..Len(puts) |-> StrikeDiff(puts[i])])]
        \* otm strikes current_price * (1 +- pct), compared in 1/100 cent
        CallOtmDiff(c) == Abs(100 * c.strike - current_price * (100 + call_otm_pct))
        PutOtmDiff(c)  == Abs(100 * c.strike - current_price * (100 - put_otm_pct))
        otm_call == calls[IdxMin([i \in 1..Len(calls) |-> CallOtmDiff(calls[i])])]
        otm_put  == puts[IdxMin([i \in 1..Len(puts) |-> PutOtmDiff(puts[i])])]
        default == DefaultSignal(market_signal, atm_call, atm_put)
    IN  IF calls = <<>> \/ puts = <<>> THEN NoSignal
        ELSE IF market_signal = "bullish" THEN
            IF atm_call.impliedVolatility > iv_threshold THEN
                IF config.bullish_high_iv = "bull_put_spread"
                THEN [NoSignal EXCEPT !.signal = "BULLISH", !.strategy = "BULL_PUT_SPREAD",
                                      !.sell_option = RowLeg(atm_put),
                                      !.buy_option = RowLeg(otm_put)]
                ELSE default
            ELSE
                IF config.bullish_low_iv = "long_call"
                THEN [NoSignal EXCEPT !.signal = "BULLISH", !.strategy = "LONG_CALL",
                                      !.option = RowLeg(atm_call)]
                ELSE default
        ELSE IF market_signal = "bearish" THEN
            IF atm_put.impliedVolatility > iv_threshold THEN
                IF config.bearish_high_iv = "bear_call_spread"
                THEN [NoSignal EXCEPT !.signal = "BEARISH", !.strategy = "BEAR_CALL_SPREAD",
                                      !.sell_option = RowLeg(atm_call),
                                      !.buy_option = RowLeg(otm_call)]
                ELSE default
            ELSE
                IF config.bearish_low_iv = "long_put"
                THEN [NoSignal EXCEPT !.signal = "BEARISH", !.strategy = "LONG_PUT",
                                      !.option = RowLeg(atm_put)]
                ELSE default
        ELSE
            IF config.neutral_default = "iron_condor"
            THEN [NoSignal EXCEPT !.signal = "NEUTRAL", !.strategy = "IRON_CONDOR",
                                  !.sell_call = RowLeg(otm_call),
                                  !.sell_put = RowLeg(otm_put),
                                  !.buy_call = FirstOrNone(SelectSeq(calls,
                                                   LAMBDA c : c.strike > otm_call.strike)),
                                  !.buy_put = FirstOrNone(SelectSeq(puts,
                                                   LAMBDA c : c.strike < otm_put.strike))]
            ELSE default

\* a selector that gives up when the scorer it called returned None
SelectOptionsStrategyNoFallback(analysis, current_price, options_data, config) ==
    LET market_signal == IF config.default_strategy # "auto"
                         THEN config.default_strategy ELSE analysis
        has_greeks == options_data.calls # <<>> /\ options_data.hasGreeks
        optimized_trade == GreekTrade(market_signal, options_data, config)
    IN  IF ~options_data.hasExpiry THEN NoSignal
        ELSE IF config.use_greek_optimization /\ has_greeks
        THEN IF optimized_trade # NoTrade
             THEN GreekSignal(market_signal, optimized_trade) ELSE NoSignal
        ELSE RuleBasedSignal(market_signal, current_price, options_data, config)

\* _select_options_strategy(symbol, signal, current_price, options_data)
SelectOptionsStrategy(analysis, current_price, options_data, config) ==
    LET market_signal == IF config.default_strategy # "auto"
                         THEN config.default_strategy ELSE analysis
        has_greeks == options_data.calls # <<>> /\ options_data.hasGreeks
        optimized_trade == GreekTrade(market_signal, options_data, config)
    IN  IF ~options_data.hasExpiry THEN NoSignal
        ELSE IF config.use_greek_optimization /\ has_greeks /\ optimized_trade # NoTrade
        THEN GreekSignal(market_signal, optimized_trade)
        ELSE RuleBasedSignal(market_signal, current_price, options_data, config)

\* "if default_strategy != 'auto': signal = default_strategy"
MarketSignal(analysis, config) ==
    IF config.default_strategy # "auto" THEN config.default_strategy ELSE analysis

\* "use_greeks and ... has_greeks": whether a scorer is called
UsesGreeks(options_data, config) ==
    /\ options_data.hasExpiry
    /\ config.use_greek_optimization
    /\ options_data.calls # <<>>
    /\ options_data.hasGreeks

\* the local optimized_trade when the selector returns (NoTrade: no scorer
\* was called, or the scorer returned None)
ScorerResult(analysis, options_data, config) ==
    IF UsesGreeks(options_data, config)
    THEN GreekTrade(MarketSignal(analysis, config), options_data, config)
    ELSE NoTrade

\* the columns of the frames options_data['calls'] and options_data['puts']
BaseColumns(options_data) ==
    {"strike", "lastPrice", "impliedVolatility"}
    \cup (IF options_data.hasGreeks THEN {"delta", "gamma", "theta"} ELSE {})
    \cup (IF options_data.hasLiquidity THEN {"openInterest", "volume"} ELSE {})

ChainColumns(options_data) ==
    [calls |-> BaseColumns(options_data), puts |-> BaseColumns(options_data)]

NoColumns == [calls |-> {}, puts |-> {}]

\* column assignments of optimize_directional_trade that reach the caller's
\* frame: the liquidity filter builds a new frame, the fallback
\* "liquid_options = options_df" does not
DirectionalColumns(options_data, direction) ==
    LET options_df == IF direction = "bullish" THEN options_data.calls ELSE options_data.puts
        added == IF /\ options_df # <<>>
                    /\ options_data.hasLiquidity
                    /\ options_data.hasGreeks
                    /\ SelectSeq(options_df, IsLiquid) = <<>>
                 THEN {"delta_score", "gamma_score", "theta_score", "total_score"}
                 ELSE {}
    IN  IF direction = "bullish" THEN [calls |-> added, puts |-> {}]
        ELSE [calls |-> {}, puts |-> added]

\* calls['strike_diff'] = ..., puts['strike_diff'] = ... of optimize_volatility_trade
VolatilityColumns(options_data) ==
    IF options_data.calls # <<>> /\ options_data.puts # <<>> /\ options_data.current_price # 0
    THEN [calls |-> {"strike_diff"}, puts |-> {"strike_diff"}]
    ELSE NoColumns

\* calls['theta_score'] = ..., puts['theta_score'] = ... of optimize_theta_decay_trade
ThetaDecayColumns(options_data) ==
    IF options_data.calls # <<>> /\ options_data.puts # <<>> /\ options_data.hasGreeks
    THEN [calls |-> {"theta_score"}, puts |-> {"theta_score"}]
    ELSE NoColumns

\* the column assignments of the scorer the Greek path delegates to
ScorerColumns(market_signal, options_data, config) ==
    IF market_signal \in {"bullish", "bearish"}
    THEN DirectionalColumns(options_data, market_signal)
    ELSE IF config.volatility_bias \in {"increasing", "decreasing"}
    THEN VolatilityColumns(options_data)
    ELSE ThetaDecayColumns(options_data)

\* calls['strike_diff'], puts['strike_diff'], calls['otm_diff'], puts['otm_diff']
\* of the rule-based selection
RuleBasedColumns(options_data) ==
    IF options_data.calls # <<>> /\ options_data.puts # <<>>
    THEN [calls |-> {"strike_diff", "otm_diff"}, puts |-> {"strike_diff", "otm_diff"}]
    ELSE NoColumns

\* every column the selector and the scorer it calls assign on the frames of
\* options_data, along the path SelectOptionsStrategy takes
SelectorColumns(analysis, options_data, config) ==
    LET market_signal == MarketSignal(analysis, config)
        scored == IF UsesGreeks(options_data, config)
                  THEN ScorerColumns(market_signal, options_data, config)
                  ELSE NoColumns
        ruled  == IF /\ options_data.hasExpiry
                     /\ ScorerResult(analysis, options_data, config) = NoTrade
                  THEN RuleBasedColumns(options_data)
                  ELSE NoColumns
    IN  [calls |-> scored.calls \cup ruled.calls, puts |-> scored.puts \cup ruled.puts]

----------------------------------------------------------------------------
(* OptionsStrategy._analyze_technicals *)

\* the weights and the threshold of config['signals'], in tenths
trend_weight == 4

momentum_weight == 3

volatility_weight == 3

signal_threshold == 2

\* the indicator columns the analyzer reads: iloc[-1] of SMA20, SMA50, RSI,
\* MACD, MACD_Signal, and the Bollinger band width (upper - lower) and middle
\* of iloc[-1] and iloc[-2]
Indicators(sma_short, sma_long, rsi, macd, macd_signal, bb_width, bb_middle, bb_width_prev, bb_middle_prev) ==
    [sma_short |-> sma_short, sma_long |-> sma_long, rsi |-> rsi,
     macd |-> macd, macd_signal |-> macd_signal,
     bb_width |-> bb_width, bb_middle |-> bb_middle,
     bb_width_prev |-> bb_width_prev, bb_middle_prev |-> bb_middle_prev]

TechConfig(use_sma, use_rsi, use_macd, use_bollinger) ==
    [use_sma |-> use_sma, use_rsi |-> use_rsi, use_macd |-> use_macd,
     use_bollinger |-> use_bollinger]

DefaultTechConfig == TechConfig(TRUE, TRUE, TRUE, TRUE)

\* signals['trend']
TrendSignal(ind, cfg) ==
    IF ~cfg.use_sma THEN 0
    ELSE IF ind.sma_short > ind.sma_long THEN 1
    ELSE IF ind.sma_short < ind.sma_long THEN -1
    ELSE 0

\* signals['momentum']: the RSI step and the MACD step
MomentumSignal(ind, cfg) ==
    (IF ~cfg.use_rsi THEN 0
     ELSE IF ind.rsi < 30 THEN 1
     ELSE IF ind.rsi > 70 THEN -1
     ELSE 0)
    + (IF ~cfg.use_macd THEN 0
       ELSE IF ind.macd > ind.macd_signal THEN 1
       ELSE IF ind.macd < ind.macd_signal THEN -1
       ELSE 0)

\* signals['volatility']: bb_width > bb_width_prev, both widths relative to
\* their (positive) middle band
VolatilitySignal(ind, cfg) ==
    IF ~cfg.use_bollinger THEN 0
    ELSE IF ind.bb_width * ind.bb_middle_prev > ind.bb_width_prev * ind.bb_middle THEN 1
    ELSE -1

\* weighted_signal, in tenths
WeightedSignal(ind, cfg) ==
    TrendSignal(ind, cfg) * trend_weight
    + MomentumSignal(ind, cfg) * momentum_weight
    + VolatilitySignal(ind, cfg) * volatility_weight

\* a classification that counts a scalar equal to the threshold as a signal
AnalyzeTechnicalsInclusive(ind, cfg) ==
    IF WeightedSignal(ind, cfg) >= signal_threshold THEN "bullish"
    ELSE IF WeightedSignal(ind, cfg) <= -signal_threshold THEN "bearish"
    ELSE "neutral"

\* _analyze_technicals(df)
AnalyzeTechnicals(ind, cfg) ==
    IF WeightedSignal(ind, cfg) > signal_threshold THEN "bullish"
    ELSE IF WeightedSignal(ind, cfg) < -signal_threshold THEN "bearish"
    ELSE "neutral"

\* no table analysed
NoIndicators == Indicators(0, 0, 50, 0, 0, 0, 1, 0, 1)

----------------------------------------------------------------------------
(* State: one symbol through generate_signals and OptionsBacktest.run *)

VARIABLES
    technical,          \* result of _analyze_technicals for the symbol
    last_close,         \* df['Close'].iloc[-1], in cents
    chain,              \* options_data[symbol]
    strategy_config,    \* the part of self.config the selector reads
    option_signal,      \* options_signals[symbol] (NoSignal: no entry)
    optimized_trade,    \* the scorer result the selector held (NoTrade: None)
    chain_columns,      \* the columns of the calls and puts frames of options_data
    stop_loss_pct,      \* percent
    take_profit_pct,    \* percent
    max_days_to_hold,   \* days
    initial_capital,    \* dollars
    df,                 \* df_copy: output columns of the rows reached so far, df[1] is bar 0
    current_date,       \* df_copy.index[i] of the last row reached, in days
    signal,             \* df_copy['Signal'] of the last row reached
    position,           \* contracts held (local of run)
    entry_date,         \* day number of the entry bar
    stop_loss_price,    \* 1/100 cent
    take_profit_price,  \* 1/100 cent
    pc,                 \* "select", "selected", "loop", "done", "skipped" or "raised";
                        \* "signals", "run", "returned" or "raised" for a call
                        \* over several symbols
    results,            \* results[symbol], set when the loop has ended
    symbols,            \* the symbols of one call: analysis, chain and bars of each
    options_signals,    \* options_signals of generate_signals, by position of the symbol
    all_results,        \* the dict results of run, by position of the symbol
    next_symbol,        \* the position the loop over the symbols has reached
    indicators,         \* the indicator columns of the last two bars of df
    tech_config,        \* config['technical_indicators']: which indicators are used
    positions,          \* PaperTradingPlatform.positions
    account_data,       \* PaperTradingPlatform.account_data, in dollars
    orders,             \* len(PaperTradingPlatform.orders)
    executed_orders,    \* the symbols of the dict the last process_signals returned
    calls_made          \* number of process_signals calls so far

\* what generate_signals' selection and run read and never write
inputs == <<technical, last_close, chain, strategy_config,
            stop_loss_pct, take_profit_pct, max_days_to_hold, initial_capital,
            indicators, tech_config>>

frame == <<df, current_date, signal, position, entry_date,
           stop_loss_price, take_profit_price>>

selection == <<optimized_trade, chain_columns>>

batch == <<symbols, options_signals, all_results, next_symbol>>

\* the paper trading platform and the executor's last return
platform == <<positions, account_data, orders, executed_orders, calls_made>>

vars == <<inputs, option_signal, selection, frame, pc, results, batch, platform>>

----------------------------------------------------------------------------
(* PaperTradingPlatform and OrderExecutor.execute_option_signal *)

\* 'max_positions' of the executor's default configuration
max_positions == 5

\* initial_balance of the paper platform, in dollars
initial_balance == 100000

\* the placeholder fill price of a market order, in dollars per share
fill_price == 100

\* an entry of self.positions (cost_basis is always the fill price)
OptionPosition(symbol, strike, option_type, quantity, position_type) ==
    [symbol |-> symbol, strike |-> strike, option_type |-> option_type,
     quantity |-> quantity, position_type |-> position_type]

\* position['market_value'] = quantity * fill_price * 100
MarketValue(pos) == pos.quantity * fill_price * 100

\* the platform as place_option_order threads it
Platform(pos, acct, n_orders) ==
    [positions |-> pos, account_data |-> acct, orders |-> n_orders]

\* account_data of a new account
NewAccount ==
    [balance |-> initial_balance, equity |-> initial_balance,
     buying_power |-> initial_balance]

RECURSIVE SumMarketValue(_)
SumMarketValue(pos) ==
    IF pos = <<>> THEN 0 ELSE MarketValue(pos[1]) + SumMarketValue(Tail(pos))

\* _update_account_equity
UpdateAccountEquity(pos, balance) ==
    [balance |-> balance, equity |-> balance + SumMarketValue(pos),
     buying_power |-> balance]

\* index of the first position with the order's option_symbol, 0 when none
ExistingPosition(pos, symbol, strike, option_type) ==
    LET hits == {i \in 1..Len(pos) : /\ pos[i].symbol = symbol
                                     /\ pos[i].strike = strike
                                     /\ pos[i].option_type = option_type}
    IN  IF hits = {} THEN 0 ELSE CHOOSE i \in hits : \A j \in hits : i <= j

\* _update_option_position for the opening sides
UpdateOptionPosition(plat, symbol, strike, option_type, quantity, side) ==
    LET transaction_amount == quantity * fill_price * 100
        balance == IF side = "buy_to_open"
                   THEN plat.account_data.balance - transaction_amount
                   ELSE plat.account_data.balance + transaction_amount
        k   == ExistingPosition(plat.positions, symbol, strike, option_type)
        pos == IF k # 0
               THEN [plat.positions EXCEPT ![k].quantity = @ + quantity]
               ELSE Append(plat.positions,
                           OptionPosition(symbol, strike, option_type, quantity,
                                          IF side = "buy_to_open" THEN "long" ELSE "short"))
    IN  Platform(pos, UpdateAccountEquity(pos, balance), plat.orders)

\* place_option_order with order_type MARKET: the order is appended and
\* executed at once
PlaceOptionOrder(plat, symbol, strike, option_type, quantity, side) ==
    UpdateOptionPosition([plat EXCEPT !.orders = @ + 1],
                         symbol, strike, option_type, quantity, side)

\* position_size = buying_power * config['position_size'] (0.1), in dollars
PositionSize(buying_power) == buying_power \div 10

\* quantity = max(1, int(position_size / per_contract)); per_contract in dollars
OrderQuantity(position_size, per_contract) == Max(1, Trunc(position_size, per_contract))

\* an item of the signals dict: signal is the StrategySignal, has_symbol tells
\* whether it carries the key 'symbol'
SignalItem(symbol, has_symbol, sig) ==
    [symbol |-> symbol, has_symbol |-> has_symbol, signal |-> sig]

\* execute_option_signal returned None
Declined(plat) == [platform |-> plat, order |-> FALSE]

\* "if len(current_positions) >= max_positions"
TooManyPositions(plat) == Len(plat.positions) >= max_positions

\* execute_option_signal; an exception inside the try block returns None
ExecuteOptionSignal(plat, item) ==
    LET sig      == item.signal
        symbol   == item.symbol
        strategy == sig.strategy
        buying_power  == plat.account_data.buying_power
        position_size == PositionSize(buying_power)
    IN  IF ~item.has_symbol THEN Declined(plat)
        ELSE IF buying_power <= 0 THEN Declined(plat)
        ELSE IF TooManyPositions(plat) THEN Declined(plat)
        ELSE IF strategy \in SingleLegKinds THEN
            LET option_type == IF strategy = "LONG_CALL" THEN "call" ELSE "put"
            IN  IF ~sig.option.present \/ ~sig.option.hasPrice \/ sig.option.lastPrice = 0
                THEN Declined(plat)
                ELSE [platform |-> PlaceOptionOrder(plat, symbol, sig.option.strike, option_type,
                                       OrderQuantity(position_size, sig.option.lastPrice),
                                       "buy_to_open"),
                      order |-> TRUE]
        ELSE IF strategy \in CreditSpreadKinds THEN
            LET option_type == IF strategy = "BULL_PUT_SPREAD" THEN "put" ELSE "call"
                max_risk == IF strategy = "BULL_PUT_SPREAD"
                            THEN sig.sell_option.strike - sig.buy_option.strike
                            ELSE sig.buy_option.strike - sig.sell_option.strike
                quantity == OrderQuantity(position_size, max_risk)
                sold == PlaceOptionOrder(plat, symbol, sig.sell_option.strike, option_type,
                                         quantity, "sell_to_open")
            IN  IF ~sig.sell_option.present \/ ~sig.buy_option.present \/ max_risk = 0
                THEN Declined(plat)
                ELSE [platform |-> PlaceOptionOrder(sold, symbol, sig.buy_option.strike,
                                                    option_type, quantity, "buy_to_open"),
                      order |-> TRUE]
        ELSE IF strategy = "IRON_CONDOR" THEN
            LET call_spread_width == sig.buy_call.strike - sig.sell_call.strike
                put_spread_width  == sig.sell_put.strike - sig.buy_put.strike
                max_risk == Max(call_spread_width, put_spread_width)
                quantity == OrderQuantity(position_size, max_risk)
                p1 == PlaceOptionOrder(plat, symbol, sig.sell_call.strike, "call",
                                       quantity, "sell_to_open")
                p2 == PlaceOptionOrder(p1, symbol, sig.buy_call.strike, "call",
                                       quantity, "buy_to_open")
                p3 == PlaceOptionOrder(p2, symbol, sig.sell_put.strike, "put",
                                       quantity, "sell_to_open")
                p4 == PlaceOptionOrder(p3, symbol, sig.buy_put.strike, "put",
                                       quantity, "buy_to_open")
            IN  IF ~sig.sell_call.present \/ ~sig.sell_put.present THEN Declined(plat)
                ELSE IF ~sig.buy_call.present \/ ~sig.buy_put.present THEN Declined(plat)
                ELSE IF max_risk = 0 THEN Declined(plat)
                ELSE [platform |-> p4, order |-> TRUE]
        ELSE Declined(plat)

\* the loop of process_signals over signals.items(): the platform after the
\* items, and the symbols whose order was returned
RECURSIVE ProcessItems(_, _, _)
ProcessItems(plat, items, done) ==
    IF items = <<>> THEN [platform |-> plat, executed_orders |-> done]
    ELSE LET out == ExecuteOptionSignal(plat, items[1])
         IN  ProcessItems(out.platform, Tail(items),
                          IF out.order THEN Append(done, items[1].symbol) ELSE done)

\* the platform of a new account, before any call
FreshPlatform ==
    /\ positions = <<>>
    /\ account_data = NewAccount
    /\ orders = 0
    /\ executed_orders = <<>>
    /\ calls_made = 0

----------------------------------------------------------------------------
(* OptionsBacktest.run: valuation and exit conditions of an open position *)

\* variant: the time decay without its cap
TimeDecayUncapped(days_held) == Min(days_held, 10)

\* time_decay = min(0.1 * days_held, 0.5), in tenths
TimeDecay(days_held) == Min(days_held, 5)

\* intrinsic_value, in cents
IntrinsicValue(strategy, close, strike) ==
    IF strategy = "LONG_CALL" THEN Max(0, close - strike) ELSE Max(0, strike - close)

\* option_value = max(intrinsic_value, lastPrice * (1 - time_decay)), in 1/100 cent
OptionValue(strategy, close, option, days_held) ==
    Max(100 * IntrinsicValue(strategy, close, option.strike),
        option.lastPrice * 10 * (10 - TimeDecay(days_held)))

\* current_value = position * option_value * 100, in cash units
CurrentValue(pos, option_value) == (pos * option_value * 3) \div 10

\* variant: the stop level placed above the premium
StopLossPriceAbove(option_price, slp) == option_price * (100 + slp)

\* stop_loss_price = option_price * (1 - stop_loss_pct), in 1/100 cent
StopLossPrice(option_price, slp) == option_price * (100 - slp)

\* take_profit_price = option_price * (1 + take_profit_pct), in 1/100 cent
TakeProfitPrice(option_price, tpp) == option_price * (100 + tpp)

\* the reversal test of the single-leg and credit-spread branches
SignalReversal(strategy, prev_signal) ==
    \/ strategy \in {"LONG_CALL", "BULL_PUT_SPREAD"} /\ prev_signal = -1
    \/ strategy \in {"LONG_PUT", "BEAR_CALL_SPREAD"} /\ prev_signal = 1

\* variant: the holding period is tested before the price levels
SingleLegExitDaysFirst(strategy, option_value, sl_price, tp_price, days_held, max_days, prev_signal) ==
    IF days_held >= max_days THEN "Max Days"
    ELSE IF option_value <= sl_price THEN "Stop Loss"
    ELSE IF option_value >= tp_price THEN "Take Profit"
    ELSE IF SignalReversal(strategy, prev_signal) THEN "Signal Reversal"
    ELSE "None"

\* the if/elif chain of the single-leg branch
SingleLegExit(strategy, option_value, sl_price, tp_price, days_held, max_days, prev_signal) ==
    IF option_value <= sl_price THEN "Stop Loss"
    ELSE IF option_value >= tp_price THEN "Take Profit"
    ELSE IF days_held >= max_days THEN "Max Days"
    ELSE IF SignalReversal(strategy, prev_signal) THEN "Signal Reversal"
    ELSE "None"

\* profit_pct = 1 - max(0, 1 - days_held / 30), in thirtieths
ProfitPct(days_held) == DaysToExpiration - Max(0, DaysToExpiration - days_held)

\* variant: the iron condor takes profit at the fraction of the vertical spreads
TakeProfitFractionSame(strategy) == 7

\* percentage of the maximum credit at which a spread / a condor takes profit
TakeProfitFraction(strategy) == IF strategy = "IRON_CONDOR" THEN 6 ELSE 7

\* profit_pct >= 0.7 (vertical spreads), profit_pct >= 0.6 (iron condor)
CreditTakeProfit(strategy, days_held) ==
    10 * ProfitPct(days_held) >= TakeProfitFraction(strategy) * DaysToExpiration

\* the if/elif chain of the credit-spread and iron-condor branches
CreditExit(strategy, days_held, max_days, prev_signal) ==
    IF CreditTakeProfit(strategy, days_held) THEN "Take Profit"
    ELSE IF days_held >= max_days THEN "Max Days"
    ELSE IF strategy \in CreditSpreadKinds /\ SignalReversal(strategy, prev_signal)
         THEN "Signal Reversal"
    ELSE "None"

\* variant: every exit realizes the take-profit fraction of the credit
CreditExitCashFixed(strategy, reason, capital, credit_received, days_held) ==
    capital + (credit_received \div 10) * TakeProfitFraction(strategy)

\* cash realized when a credit position is closed, in cash units
\* (credit_received is a whole number of dollars, i.e. a multiple of 30 units)
CreditExitCash(strategy, reason, capital, credit_received, days_held) ==
    IF reason = "Take Profit"
    THEN capital + (credit_received \div 10) * TakeProfitFraction(strategy)
    ELSE capital + (credit_received \div DaysToExpiration) * ProfitPct(days_held)

\* variant: the portfolio column records the cash alone
PortfolioValueCashOnly(cash, holdings) == cash

\* df_copy.loc[current_date, 'Portfolio'] = Cash + Holdings
PortfolioValue(cash, holdings) == cash + holdings

----------------------------------------------------------------------------
(* OptionsBacktest.run: one iteration of the bar loop *)

\* the row of a bar as the column initialisation leaves it
\* (output columns only; the input columns Signal, Close and the date index
\* are read, never written)
BlankRow(capital) ==
    [Position |-> 0, Cash |-> capital, Holdings |-> 0, Portfolio |-> capital,
     Stop_Loss |-> 0, Take_Profit |-> 0, Days_Held |-> 0, Exit_Reason |-> "None"]

\* variant: an exit branch that leaves the contract count in place
ClosePositionKeep(loc) == loc

\* "position = 0" of an exit branch
ClosePosition(loc) == [loc EXCEPT !.position = 0]

\* the local variables of run that survive from bar to bar
Locals(pos, edate, sl_price, tp_price) ==
    [position |-> pos, entry_date |-> edate,
     stop_loss_price |-> sl_price, take_profit_price |-> tp_price]

\* "if position > 0": valuation, exit conditions, hold
OpenStep(sig, row, prev, loc, max_days, capital, date, close, prev_signal) ==
    LET strategy  == sig.strategy
        days_held == date - loc.entry_date
        r1        == [row EXCEPT !.Days_Held = days_held]
    IN  IF strategy \in SingleLegKinds THEN
            LET option_value  == OptionValue(strategy, close, sig.option, days_held)
                current_value == CurrentValue(loc.position, option_value)
                reason == SingleLegExit(strategy, option_value, loc.stop_loss_price,
                                        loc.take_profit_price, days_held, max_days,
                                        prev_signal)
            IN  IF reason # "None"
                THEN [outcome |-> "ok",
                      row |-> [r1 EXCEPT !.Cash = prev.Cash + current_value,
                                         !.Holdings = 0, !.Exit_Reason = reason],
                      loc |-> ClosePosition(loc)]
                ELSE [outcome |-> "ok",
                      row |-> [r1 EXCEPT !.Cash = prev.Cash, !.Holdings = current_value],
                      loc |-> loc]
        ELSE IF strategy \in CreditSpreadKinds \cup {"IRON_CONDOR"} THEN
            LET credit_received == prev.Cash - capital
                reason == CreditExit(strategy, days_held, max_days, prev_signal)
            IN  IF reason # "None"
                THEN [outcome |-> "ok",
                      row |-> [r1 EXCEPT !.Cash = CreditExitCash(strategy, reason, capital,
                                                                 credit_received, days_held),
                                         !.Holdings = 0, !.Exit_Reason = reason],
                      loc |-> ClosePosition(loc)]
                ELSE [outcome |-> "ok",
                      row |-> [r1 EXCEPT !.Cash = prev.Cash, !.Holdings = prev.Holdings],
                      loc |-> loc]
        ELSE [outcome |-> "ok", row |-> r1, loc |-> loc]

\* contracts = int(initial_capital / (per_contract * 100)); per_contract in cents
SizeContracts(capital_dollars, per_contract) == Trunc(capital_dollars, per_contract)

\* entry of LONG_CALL / LONG_PUT
EnterSingleLeg(sig, row, loc, slp, tpp, capital_dollars, date) ==
    LET option_price == sig.option.lastPrice
        contracts == SizeContracts(capital_dollars, option_price)
        cost == Dollars(contracts * option_price)
        sl == StopLossPrice(option_price, slp)
        tp == TakeProfitPrice(option_price, tpp)
    IN  IF ~sig.option.hasPrice \/ option_price = 0
        THEN [outcome |-> "raise", row |-> row, loc |-> loc]
        ELSE [outcome |-> "ok",
              row |-> [row EXCEPT !.Cash = Dollars(capital_dollars) - cost,
                                  !.Holdings = cost, !.Stop_Loss = sl, !.Take_Profit = tp],
              loc |-> Locals(contracts, date, sl, tp)]

\* entry of BULL_PUT_SPREAD / BEAR_CALL_SPREAD
EnterCreditSpread(sig, row, loc, capital_dollars, date) ==
    LET sell_option == sig.sell_option
        buy_option  == sig.buy_option
        net_credit  == sell_option.lastPrice - buy_option.lastPrice
        width       == sell_option.strike - buy_option.strike
        contracts   == SizeContracts(capital_dollars, width)
        credit_received == Dollars(contracts * net_credit)
    IN  IF ~sell_option.hasPrice \/ ~buy_option.hasPrice \/ width = 0
        THEN [outcome |-> "raise", row |-> row, loc |-> loc]
        ELSE [outcome |-> "ok",
              row |-> [row EXCEPT !.Cash = Dollars(capital_dollars) + credit_received,
                                  !.Holdings = 0],
              loc |-> [loc EXCEPT !.position = contracts, !.entry_date = date]]

\* variant: the entry without the test for a missing protective leg
\* (None['lastPrice'] raises)
EnterIronCondorUnchecked(sig, row, loc, capital_dollars, date) ==
    LET net_credit == (sig.sell_call.lastPrice + sig.sell_put.lastPrice)
                      - (sig.buy_call.lastPrice + sig.buy_put.lastPrice)
        max_risk  == Max(sig.buy_call.strike - sig.sell_call.strike,
                         sig.sell_put.strike - sig.buy_put.strike) - net_credit
        contracts == SizeContracts(capital_dollars, max_risk)
    IN  IF \/ ~sig.sell_call.hasPrice \/ ~sig.sell_put.hasPrice
           \/ ~sig.buy_call.hasPrice \/ ~sig.buy_put.hasPrice
           \/ max_risk = 0
        THEN [outcome |-> "raise", row |-> row, loc |-> loc]
        ELSE [outcome |-> "ok",
              row |-> [row EXCEPT !.Cash = Dollars(capital_dollars)
                                           + Dollars(contracts * net_credit),
                                  !.Holdings = 0],
              loc |-> [loc EXCEPT !.position = contracts, !.entry_date = date]]

\* entry of IRON_CONDOR
EnterIronCondor(sig, row, loc, capital_dollars, date) ==
    LET sell_call == sig.sell_call
        sell_put  == sig.sell_put
        buy_call  == sig.buy_call
        buy_put   == sig.buy_put
        net_credit == (sell_call.lastPrice + sell_put.lastPrice)
                      - (buy_call.lastPrice + buy_put.lastPrice)
        call_spread_width == buy_call.strike - sell_call.strike
        put_spread_width  == sell_put.strike - buy_put.strike
        max_risk  == Max(call_spread_width, put_spread_width) - net_credit
        contracts == SizeContracts(capital_dollars, max_risk)
        credit_received == Dollars(contracts * net_credit)
    IN  IF ~buy_call.present \/ ~buy_put.present
        THEN [outcome |-> "continue", row |-> row, loc |-> loc]
        ELSE IF \/ ~sell_call.hasPrice \/ ~sell_put.hasPrice
                \/ ~buy_call.hasPrice \/ ~buy_put.hasPrice
                \/ max_risk = 0
        THEN [outcome |-> "raise", row |-> row, loc |-> loc]
        ELSE [outcome |-> "ok",
              row |-> [row EXCEPT !.Cash = Dollars(capital_dollars) + credit_received,
                                  !.Holdings = 0],
              loc |-> [loc EXCEPT !.position = contracts, !.entry_date = date]]

\* variant: the directional kind of the Greek path enters like a single leg
EntryStepDirectional(sig, row, loc, slp, tpp, capital_dollars, date) ==
    IF sig.strategy \in SingleLegKinds \cup {"DIRECTIONAL"}
    THEN EnterSingleLeg(sig, row, loc, slp, tpp, capital_dollars, date)
    ELSE IF sig.strategy \in CreditSpreadKinds
    THEN EnterCreditSpread(sig, row, loc, capital_dollars, date)
    ELSE IF sig.strategy = "IRON_CONDOR"
    THEN EnterIronCondor(sig, row, loc, capital_dollars, date)
    ELSE [outcome |-> "ok", row |-> row, loc |-> loc]

\* "elif Signal[i-1] == 1 and position == 0": dispatch on the strategy kind
EntryStep(sig, row, loc, slp, tpp, capital_dollars, date) ==
    IF sig.strategy \in SingleLegKinds
    THEN EnterSingleLeg(sig, row, loc, slp, tpp, capital_dollars, date)
    ELSE IF sig.strategy \in CreditSpreadKinds
    THEN EnterCreditSpread(sig, row, loc, capital_dollars, date)
    ELSE IF sig.strategy = "IRON_CONDOR"
    THEN EnterIronCondor(sig, row, loc, capital_dollars, date)
    ELSE [outcome |-> "ok", row |-> row, loc |-> loc]

\* whether the entry branch is taken on a bar
EntryCondition(prev_signal, pos) == prev_signal = 1 /\ pos = 0

\* variant: the entry test is a separate "if" evaluated after the exit branch
BarBodyReenter(sig, row, prev, loc, slp, tpp, max_days, capital_dollars, date, close, prev_signal) ==
    LET exited == IF loc.position > 0
                  THEN OpenStep(sig, row, prev, loc, max_days, Dollars(capital_dollars),
                                date, close, prev_signal)
                  ELSE [outcome |-> "ok", row |-> row, loc |-> loc]
    IN  IF exited.outcome = "ok" /\ EntryCondition(prev_signal, exited.loc.position)
        THEN EntryStep(sig, exited.row, exited.loc, slp, tpp, capital_dollars, date)
        ELSE exited

\* the body of "for i in range(1, len(df_copy))" up to the portfolio update
BarBody(sig, row, prev, loc, slp, tpp, max_days, capital_dollars, date, close, prev_signal) ==
    IF loc.position > 0
    THEN OpenStep(sig, row, prev, loc, max_days, Dollars(capital_dollars),
                  date, close, prev_signal)
    ELSE IF EntryCondition(prev_signal, loc.position)
    THEN EntryStep(sig, row, loc, slp, tpp, capital_dollars, date)
    ELSE [outcome |-> "ok", row |-> row, loc |-> loc]

\* the portfolio update that ends an iteration; "continue" skips it
FinishRow(out) ==
    IF out.outcome = "ok"
    THEN [out.row EXCEPT !.Position = out.loc.position,
                         !.Portfolio = PortfolioValue(out.row.Cash, out.row.Holdings)]
    ELSE out.row

----------------------------------------------------------------------------
(* Inputs *)

\* values of the per-bar directional signal column
SignalValues == {-1, 0, 1}

\* closing prices of the underlying, in cents
CloseValues == {9400, 10250, 10600}

\* calendar days between two consecutive bars
DateGaps == {1, 4, 11}

\* (stop_loss_pct, take_profit_pct, max_days_to_hold, initial_capital) of a run
RunConfig(slp, tpp, max_days, capital) ==
    [stop_loss_pct |-> slp, take_profit_pct |-> tpp,
     max_days_to_hold |-> max_days, initial_capital |-> capital]

DefaultRunConfig == RunConfig(50, 100, 14, 100000)

RunConfigs ==
    { DefaultRunConfig, RunConfig(20, 50, 3, 100000),
      RunConfig(0, 0, 14, 100000), RunConfig(50, 100, 14, 1000),
      RunConfig(60, 100, 14, 100000) }

\* outcomes of _analyze_technicals
Directions == {"bullish", "bearish", "neutral"}

\* chain rows: calls and puts around an underlying at 100.00
AtmCall(iv) == Contract(10000, 250, iv, 50, 8, -5, 500, 50)

OtmCall == Contract(10500, 100, 60, 25, 5, -12, 500, 50)

FarCall == Contract(11000, 40, 60, 10, 2, -3, 20, 5)

LiquidFarCall == Contract(11000, 40, 60, 10, 2, -3, 500, 50)

DearCall == Contract(10000, 2000, 30, 50, 8, -5, 500, 50)

AtmPut(iv) == Contract(10000, 250, iv, -50, 8, -5, 500, 50)

OtmPut == Contract(9500, 100, 60, -25, 5, -12, 500, 50)

FarPut == Contract(9000, 40, 60, -10, 2, -3, 20, 5)

DeepPut == Contract(9000, 40, 60, -40, 2, -3, 500, 50)

DearPut == Contract(10000, 2000, 30, -50, 8, -5, 500, 50)

\* the default configuration, and its variations
DefaultSelectorConfig ==
    SelectorConfig(TRUE, "auto", "neutral", "long_call", "bull_put_spread",
                   "long_put", "bear_call_spread", "iron_condor", 2000)

RuleConfig == [DefaultSelectorConfig EXCEPT !.use_greek_optimization = FALSE]

DecreasingConfig == [DefaultSelectorConfig EXCEPT !.volatility_bias = "decreasing"]

IncreasingConfig == [DefaultSelectorConfig EXCEPT !.volatility_bias = "increasing"]

UnknownNameConfig == [RuleConfig EXCEPT !.bullish_low_iv = "covered_call"]

\* a chain without Greek and liquidity columns / with them
PlainChain(calls, puts) == OptionsData(TRUE, FALSE, FALSE, 10000, calls, puts)

GreekChain(calls, puts) == OptionsData(TRUE, TRUE, TRUE, 10000, calls, puts)

FullCalls(iv) == <<AtmCall(iv), OtmCall, FarCall>>

FullPuts(iv) == <<AtmPut(iv), OtmPut, FarPut>>

RunCase(direction, options_data, config) ==
    [technical |-> direction, chain |-> options_data, strategy_config |-> config]

\* the selections whose signals are simulated
RunCases ==
    { RunCase("bullish", PlainChain(FullCalls(30), FullPuts(30)), RuleConfig),
      RunCase("bearish", PlainChain(FullCalls(30), FullPuts(30)), RuleConfig),
      RunCase("bullish", PlainChain(FullCalls(60), FullPuts(60)), RuleConfig),
      RunCase("bearish", PlainChain(FullCalls(60), FullPuts(60)), RuleConfig),
      RunCase("neutral", PlainChain(FullCalls(30), FullPuts(30)), RuleConfig),
      RunCase("neutral", PlainChain(<<AtmCall(30), OtmCall>>, FullPuts(30)), RuleConfig),
      RunCase("bullish", PlainChain(<<DearCall>>, <<DearPut>>), RuleConfig),
      RunCase("bullish", PlainChain(<<AtmCall(60)>>, <<AtmPut(60)>>), RuleConfig),
      RunCase("bullish", PlainChain(FullCalls(30), FullPuts(30)), UnknownNameConfig),
      RunCase("bullish", PlainChain(<<>>, <<>>), RuleConfig),
      RunCase("bullish", GreekChain(FullCalls(30), FullPuts(30)), DefaultSelectorConfig),
      RunCase("neutral", GreekChain(FullCalls(30), <<AtmPut(30), OtmPut, DeepPut>>),
              DecreasingConfig),
      RunCase("neutral", GreekChain(<<AtmCall(30), FarCall>>, <<AtmPut(30), OtmPut, DeepPut>>),
              DefaultSelectorConfig),
      RunCase("neutral", GreekChain(FullCalls(30), FullPuts(30)), IncreasingConfig),
      RunCase("neutral", GreekChain(<<AtmCall(30), OtmCall, LiquidFarCall>>, FullPuts(30)),
              DefaultSelectorConfig) }

NoResults ==
    [Strategy |-> "None", Final_Portfolio |-> 0, Sharpe_Ratio |-> [kind |-> "None"],
     Exit_Reasons |-> <<>>]

\* entry_date = None
NoDate == -1

----------------------------------------------------------------------------
(* Actions *)

\* the state before generate_signals: nothing selected, nothing simulated
Start ==
    /\ option_signal = NoSignal
    /\ optimized_trade = NoTrade
    /\ chain_columns = ChainColumns(chain)
    /\ df = <<>>
    /\ current_date = 0
    /\ signal = 0
    /\ position = 0
    /\ entry_date = NoDate
    /\ stop_loss_price = 0
    /\ take_profit_price = 0
    /\ pc = "select"
    /\ results = NoResults
    /\ symbols = <<>>
    /\ options_signals = <<>>
    /\ all_results = <<>>
    /\ next_symbol = 0
    /\ indicators = NoIndicators
    /\ tech_config = DefaultTechConfig
    /\ FreshPlatform

Init ==
    /\ \E c \in RunCases :
         /\ technical = c.technical
         /\ chain = c.chain
         /\ strategy_config = c.strategy_config
    /\ last_close = 10000
    /\ \E c \in RunConfigs :
         /\ stop_loss_pct = c.stop_loss_pct
         /\ take_profit_pct = c.take_profit_pct
         /\ max_days_to_hold = c.max_days_to_hold
         /\ initial_capital = c.initial_capital
    /\ Start

\* OptionsStrategy.generate_signals for the symbol
GenerateSignals ==
    /\ pc = "select"
    /\ option_signal' = SelectOptionsStrategy(technical, last_close, chain, strategy_config)
    /\ optimized_trade' = ScorerResult(technical, chain, strategy_config)
    /\ chain_columns' =
          LET added == SelectorColumns(technical, chain, strategy_config)
          IN  [calls |-> chain_columns.calls \cup added.calls,
               puts  |-> chain_columns.puts \cup added.puts]
    /\ pc' = "selected"
    /\ UNCHANGED <<platform, inputs, frame, results, batch>>

\* OptionsBacktest.run up to the bar loop; first_signal is Signal of bar 0
RunStart(first_signal) ==
    /\ pc = "selected"
    /\ IF option_signal = NoSignal
       THEN \* symbol not in options_signals: continue
            /\ pc' = "skipped"
            /\ UNCHANGED frame
       ELSE /\ df' = << BlankRow(Dollars(initial_capital)) >>
            /\ signal' = first_signal
            /\ position' = 0
            /\ entry_date' = NoDate
            /\ stop_loss_price' = 0
            /\ take_profit_price' = 0
            /\ current_date' = 0
            /\ pc' = "loop"
    /\ UNCHANGED <<platform, inputs, option_signal, selection, results, batch>>

\* Dates are day numbers.  The program reads them only in the difference
\* (current_date - entry_date).days, and only while position > 0; an entry
\* overwrites entry_date before it is read again.  The calendar origin is
\* therefore moved to the current bar whenever the position is zero, which
\* leaves every value the program computes unchanged.  A non-zero position
\* keeps its entry date, so the days since entry stay observable.
RebasedDate(date, pos) == IF pos # 0 THEN date ELSE 0

RebasedEntry(edate, pos) == IF pos # 0 THEN edate ELSE NoDate

\* one iteration of the loop over the bars: the bar dated current_date + gap,
\* with closing price close and directional signal next_signal
Bar(gap, close, next_signal) ==
    /\ pc = "loop"
    /\ Len(df) < MaxBars
    /\ LET date == current_date + gap
           out  == BarBody(option_signal, BlankRow(Dollars(initial_capital)), df[Len(df)],
                           Locals(position, entry_date, stop_loss_price, take_profit_price),
                           stop_loss_pct, take_profit_pct, max_days_to_hold,
                           initial_capital, date, close, signal)
       IN  IF out.outcome = "raise"
           THEN /\ pc' = "raised"
                /\ UNCHANGED frame
           ELSE /\ df' = Append(df, FinishRow(out))
                /\ current_date' = RebasedDate(date, out.loc.position)
                /\ signal' = next_signal
                /\ position' = out.loc.position
                /\ entry_date' = RebasedEntry(out.loc.entry_date, out.loc.position)
                /\ stop_loss_price' = out.loc.stop_loss_price
                /\ take_profit_price' = out.loc.take_profit_price
                /\ pc' = "loop"
    /\ UNCHANGED <<platform, inputs, option_signal, selection, results, batch>>

\* greatest common divisor of two naturals
RECURSIVE Gcd(_, _)
Gcd(a, b) == IF b = 0 THEN a ELSE Gcd(b, a % b)

\* one element of Portfolio.pct_change(): cur / prev - 1 as a fraction in
\* lowest terms; a division by a zero Portfolio gives nan (0/0) or inf
PctChange(prev, cur) ==
    IF prev = 0
    THEN IF cur = 0 THEN [kind |-> "nan", n |-> 0, d |-> 1]
         ELSE [kind |-> "inf", n |-> 0, d |-> 1]
    ELSE LET g == Gcd(Abs(cur - prev), Abs(prev))
             s == IF prev < 0 THEN -1 ELSE 1
         IN  [kind |-> "num", n |-> s * ((cur - prev) \div g), d |-> Abs(prev) \div g]

\* df_copy['Returns'] = df_copy['Portfolio'].pct_change(): nan in the first row
Returns(rows) ==
    [i \in 1..Len(rows) |->
        IF i = 1 THEN [kind |-> "nan", n |-> 0, d |-> 1]
        ELSE PctChange(rows[i - 1].Portfolio, rows[i].Portfolio)]

\* the values mean() and std() look at: nan is skipped
ValidReturns(rows) == {i \in 1..Len(rows) : Returns(rows)[i].kind # "nan"}

\* Returns.std(), as far as the program reads it: "nan" with fewer than two
\* values or with an inf among them, "zero" when all values are equal,
\* "positive" otherwise
ReturnsStd(rows) ==
    LET r == Returns(rows)
        valid == ValidReturns(rows)
    IN  IF Cardinality(valid) < 2 \/ \E i \in valid : r[i].kind = "inf" THEN "nan"
        ELSE IF \A i, j \in valid : r[i] = r[j] THEN "zero"
        ELSE "positive"

\* a Sharpe_Ratio: the literal 0 of the guard, or the quotient
\* mean / std * 252 ** 0.5 (finite, or nan when std is nan)
SharpeZero == [kind |-> "zero"]

SharpeQuotient(std) ==
    IF std = "positive" THEN [kind |-> "finite"]
    ELSE IF std = "nan" THEN [kind |-> "nan"]
    ELSE [kind |-> "division_by_zero"]

\* the quotient without the test of std
SharpeRatioUnguarded(rows) == SharpeQuotient(ReturnsStd(rows))

\* "mean / std * (252 ** 0.5) if std != 0 else 0"
SharpeRatio(rows) ==
    IF ReturnsStd(rows) # "zero" THEN SharpeQuotient(ReturnsStd(rows)) ELSE SharpeZero

\* exit_reasons = df_copy['Exit_Reason'].value_counts().to_dict()
ExitReasonCounts(rows) ==
    [r \in {rows[k].Exit_Reason : k \in 1..Len(rows)} \ {"None"} |->
        Cardinality({k \in 1..Len(rows) : rows[k].Exit_Reason = r})]

\* the end of the series: the performance record of the symbol
Finish ==
    /\ pc = "loop"
    /\ results' = [Strategy |-> option_signal.strategy,
                   Final_Portfolio |-> df[Len(df)].Portfolio,
                   Sharpe_Ratio |-> SharpeRatio(df),
                   Exit_Reasons |-> ExitReasonCounts(df)]
    /\ pc' = "done"
    /\ UNCHANGED <<platform, inputs, option_signal, selection, frame, batch>>

Next ==
    \/ GenerateSignals
    \/ \E first_signal \in SignalValues : RunStart(first_signal)
    \/ \E gap \in DateGaps, close \in CloseValues, next_signal \in SignalValues :
          Bar(gap, close, next_signal)
    \/ Finish

Spec == Init /\ [][Next]_vars

----------------------------------------------------------------------------
(* The selector alone, over families of option chains *)

\* the largest number of rows of a calls or puts frame
MaxRows == 2

\* more chain rows: a call that pays 1.20 more than the far call, and
\* illiquid rows next to the money
RichOtmCall == Contract(10500, 160, 60, 25, 5, -12, 500, 50)

ThinOtmPut == Contract(9500, 100, 60, -25, 5, -12, 20, 5)

CallPool == {AtmCall(30), AtmCall(60), RichOtmCall, LiquidFarCall, FarCall}

PutPool == {AtmPut(30), OtmPut, DeepPut, FarPut, ThinOtmPut}

\* the frames of at most n rows over a pool, rows in any order, no row twice
Frames(pool, n) ==
    UNION { {f \in [1..k -> pool] : \A i, j \in 1..k : f[i] = f[j] => i = j} : k \in 0..n }

\* risk capital without a 'backtest' section, and with a small account
NoBacktestConfig == [DefaultSelectorConfig EXCEPT !.risk_capital = 10000]

SmallAccountConfig == [DefaultSelectorConfig EXCEPT !.risk_capital = 100]

UnknownHighIvConfig == [RuleConfig EXCEPT !.bullish_high_iv = "covered_call",
                                          !.bearish_high_iv = "protective_put"]

UnknownNeutralConfig == [RuleConfig EXCEPT !.neutral_default = "butterfly"]

ForcedBearishConfig == [RuleConfig EXCEPT !.default_strategy = "bearish"]

UnknownNeutralGreekConfig == [DefaultSelectorConfig EXCEPT !.neutral_default = "butterfly"]

\* one call of _select_options_strategy apart from the rows of the chain
SelectMode(direction, config, hasExpiry, hasGreeks, hasLiquidity, current_price) ==
    [technical |-> direction, strategy_config |-> config, hasExpiry |-> hasExpiry,
     hasGreeks |-> hasGreeks, hasLiquidity |-> hasLiquidity, current_price |-> current_price]

SelectModes ==
    { SelectMode("bullish", RuleConfig, TRUE, FALSE, FALSE, 10000),
      SelectMode("bearish", RuleConfig, TRUE, FALSE, FALSE, 10000),
      SelectMode("neutral", RuleConfig, TRUE, TRUE, TRUE, 10000),
      SelectMode("bullish", UnknownNameConfig, TRUE, FALSE, FALSE, 10000),
      SelectMode("bullish", UnknownHighIvConfig, TRUE, TRUE, TRUE, 10000),
      SelectMode("bearish", UnknownHighIvConfig, TRUE, FALSE, FALSE, 10000),
      SelectMode("neutral", UnknownNeutralConfig, TRUE, FALSE, FALSE, 10000),
      SelectMode("neutral", UnknownNeutralGreekConfig, TRUE, TRUE, TRUE, 10000),
      SelectMode("bullish", ForcedBearishConfig, TRUE, FALSE, FALSE, 10000),
      SelectMode("bullish", DefaultSelectorConfig, TRUE, TRUE, TRUE, 10000),
      SelectMode("bearish", DefaultSelectorConfig, TRUE, TRUE, TRUE, 10000),
      SelectMode("neutral", DefaultSelectorConfig, TRUE, TRUE, TRUE, 10000),
      SelectMode("neutral", NoBacktestConfig, TRUE, TRUE, TRUE, 10000),
      SelectMode("neutral", SmallAccountConfig, TRUE, TRUE, TRUE, 10000),
      SelectMode("neutral", DecreasingConfig, TRUE, TRUE, TRUE, 10000),
      SelectMode("neutral", IncreasingConfig, TRUE, TRUE, TRUE, 10000),
      SelectMode("neutral", DecreasingConfig, TRUE, TRUE, TRUE, 0),
      SelectMode("bullish", DefaultSelectorConfig, TRUE, FALSE, FALSE, 10000),
      SelectMode("bullish", DefaultSelectorConfig, TRUE, TRUE, FALSE, 10000),
      SelectMode("neutral", DefaultSelectorConfig, FALSE, TRUE, TRUE, 10000) }

InitSelect ==
    /\ \E m \in SelectModes, calls \in Frames(CallPool, MaxRows),
          puts \in Frames(PutPool, MaxRows) :
         /\ technical = m.technical
         /\ strategy_config = m.strategy_config
         /\ chain = OptionsData(m.hasExpiry, m.hasGreeks, m.hasLiquidity,
                                m.current_price, calls, puts)
    /\ last_close = 10000
    /\ stop_loss_pct = DefaultRunConfig.stop_loss_pct
    /\ take_profit_pct = DefaultRunConfig.take_profit_pct
    /\ max_days_to_hold = DefaultRunConfig.max_days_to_hold
    /\ initial_capital = DefaultRunConfig.initial_capital
    /\ Start

NextSelect == GenerateSignals

SpecSelect == InitSelect /\ [][NextSelect]_vars

----------------------------------------------------------------------------
(* Properties of OptionsBacktest.run *)

Last(rows) == rows[Len(rows)]

\* the position is OPEN when the program's test "position > 0" holds
Open(pos) == pos > 0

\* the valuation of a single-leg position as the specification states it,
\* in 1/100 cent: value = max(intrinsic, premium * (1 - min(0.1 * daysHeld, 0.5)))
StatedValue(sig, close, days_held) ==
    LET intrinsic == IF sig.strategy = "LONG_CALL"
                     THEN (IF close > sig.option.strike THEN close - sig.option.strike ELSE 0)
                     ELSE (IF sig.option.strike > close THEN sig.option.strike - close ELSE 0)
        decay10   == IF days_held < 5 THEN days_held ELSE 5
        decayed   == sig.option.lastPrice * 10 * (10 - decay10)
    IN  IF 100 * intrinsic > decayed THEN 100 * intrinsic ELSE decayed

\* whether exit condition r of the open position holds on the bar with the
\* given closing price, days held and prior-bar signal
ExitConditionHolds(r, sig, close, days_held, prev_signal) ==
    IF sig.strategy \in SingleLegKinds THEN
        CASE r = "Stop Loss"   -> StatedValue(sig, close, days_held) <= stop_loss_price
          [] r = "Take Profit" -> StatedValue(sig, close, days_held) >= take_profit_price
          [] r = "Max Days"    -> days_held >= max_days_to_hold
          [] r = "Signal Reversal" ->
                 \/ sig.strategy = "LONG_CALL" /\ prev_signal = -1
                 \/ sig.strategy = "LONG_PUT" /\ prev_signal = 1
    ELSE IF sig.strategy \in CreditSpreadKinds THEN
        CASE r = "Stop Loss"   -> FALSE
          [] r = "Take Profit" -> days_held >= 21
          [] r = "Max Days"    -> days_held >= max_days_to_hold
          [] r = "Signal Reversal" ->
                 \/ sig.strategy = "BULL_PUT_SPREAD" /\ prev_signal = -1
                 \/ sig.strategy = "BEAR_CALL_SPREAD" /\ prev_signal = 1
    ELSE
        CASE r = "Stop Loss"   -> FALSE
          [] r = "Take Profit" -> days_held >= 18
          [] r = "Max Days"    -> days_held >= max_days_to_hold
          [] r = "Signal Reversal" -> FALSE

Priority(r) ==
    CASE r = "Stop Loss" -> 1
      [] r = "Take Profit" -> 2
      [] r = "Max Days" -> 3
      [] r = "Signal Reversal" -> 4

HighestPriority(S) == CHOOSE r \in S : \A q \in S : Priority(r) <= Priority(q)

\* C1: on every bar of the simulated series the recorded Portfolio equals the
\* recorded Cash plus the recorded Holdings of that bar.
C1_PortfolioIsCashPlusHoldings ==
    \A k \in 1..Len(df) : df[k].Portfolio = df[k].Cash + df[k].Holdings

\* a finished run that held a position with a non-zero holdings value and exited it
C1_Witness ==
    /\ pc = "done"
    /\ \E k \in 1..Len(df) : df[k].Holdings > 0 /\ df[k].Position > 0
    /\ \E k \in 1..Len(df) : df[k].Exit_Reason # "None" /\ df[k].Cash # Dollars(initial_capital)

\* C2: on every bar processed while a position is OPEN, if at least one exit
\* condition of the strategy holds, the recorded Exit_Reason is the one of
\* highest priority among those that hold (Stop Loss, Take Profit, Max Days,
\* Signal Reversal, in that order).
C2_ExitPriority ==
    [][(pc = "loop" /\ Open(position)) =>
        \A gap \in DateGaps, close \in CloseValues, next_signal \in SignalValues :
          Bar(gap, close, next_signal) =>
              LET days_held == current_date + gap - entry_date
                  holding == {r \in ExitReasons :
                                 ExitConditionHolds(r, option_signal, close, days_held, signal)}
              IN  holding # {} => Last(df').Exit_Reason = HighestPriority(holding)]_vars

\* a stop-loss exit on a bar on which the maximum holding period was reached too
C2_Witness ==
    /\ pc = "loop"
    /\ Len(df) >= 2
    /\ Last(df).Exit_Reason = "Stop Loss"
    /\ Last(df).Days_Held >= max_days_to_hold

\* C3: an exit reason is recorded only on a bar at whose start a position was
\* open, that bar ends flat, and between two bars with an exit reason there is
\* a bar that ends with an open position (an entry in between).
C3_OneExitPerPosition ==
    /\ \A k \in 1..Len(df) :
          df[k].Exit_Reason # "None" =>
              /\ k >= 2
              /\ Open(df[k - 1].Position)
              /\ df[k].Position = 0
    /\ \A j, k \in 1..Len(df) :
          (j < k /\ df[j].Exit_Reason # "None" /\ df[k].Exit_Reason # "None") =>
              \E m \in (j + 1)..(k - 1) : Open(df[m].Position)

\* two exits in one run, separated by a new entry
C3_Witness ==
    \E j, k \in 1..Len(df) :
        /\ j < k
        /\ df[j].Exit_Reason # "None"
        /\ df[k].Exit_Reason # "None"

\* C4: the position status changes only from FLAT to OPEN on a bar without an
\* exit, or from OPEN to FLAT on a bar with an exit; on a bar on which the
\* position is exited no new position is opened, whatever the prior signal.
C4_NoReentryOnExitBar ==
    [][(pc = "loop" /\ pc' = "loop") =>
          /\ (Open(position) /\ ~Open(position')) <=> Last(df').Exit_Reason # "None"
          /\ (Open(position) /\ Open(position')) =>
                 position' = position /\ entry_date' = entry_date
          /\ (~Open(position) /\ Open(position')) =>
                 /\ Last(df').Exit_Reason = "None"
                 /\ entry_date' = current_date'
          /\ Last(df').Exit_Reason # "None" => position' = 0]_vars

\* a long put closed by signal reversal, i.e. on a bar whose prior signal is a buy
C4_Witness ==
    /\ pc = "loop"
    /\ option_signal.strategy = "LONG_PUT"
    /\ Len(df) >= 2
    /\ Last(df).Exit_Reason = "Signal Reversal"
    /\ position = 0

\* whether the entry branch of a bar sizes a trade for the signal
SizesTrade(sig) ==
    \/ sig.strategy \in SingleLegKinds \cup CreditSpreadKinds
    \/ sig.strategy = "IRON_CONDOR" /\ sig.buy_call.present /\ sig.buy_put.present

\* C5: whenever the simulator takes an entry branch that sizes a trade, the
\* contract count that becomes the position is at least 1.
C5_EntrySizesAtLeastOne ==
    [][(pc = "loop" /\ pc' = "loop" /\ EntryCondition(signal, position)
          /\ SizesTrade(option_signal))
       => position' >= 1]_vars

\* C6: every signal the selector returns carries a contracts field holding an
\* integer >= 1, on the Greek-optimized path and on the rule-based path.
C6_SignalCarriesContracts ==
    option_signal # NoSignal =>
        option_signal.has_contracts /\ option_signal.contracts >= 1

\* C7: the strategy kind of every signal the selector returns is one of the
\* nine kinds LONG_CALL, LONG_PUT, BULL_PUT_SPREAD, BEAR_CALL_SPREAD,
\* IRON_CONDOR, LONG_STRADDLE, CALL_CREDIT_SPREAD, PUT_CREDIT_SPREAD, DEFAULT.
C7_StrategyKindInClosedSet ==
    option_signal # NoSignal => option_signal.strategy \in StrategyKinds

\* C8: a position is opened only while flat and only when the prior bar's
\* signal matches the bias of the strategy: +1 for LONG_CALL and
\* BULL_PUT_SPREAD, -1 for LONG_PUT and BEAR_CALL_SPREAD.
C8_EntryMatchesBias ==
    [][(pc = "loop" /\ ~Open(position) /\ Open(position')) =>
          /\ position = 0
          /\ option_signal.strategy \in {"LONG_CALL", "BULL_PUT_SPREAD"} => signal = 1
          /\ option_signal.strategy \in {"LONG_PUT", "BEAR_CALL_SPREAD"} => signal = -1]_vars

\* C9: a single-leg position entered at premium p gets the stop level
\* p * (1 - stop_loss_pct); on every later bar on which the position is open
\* and its value is at or below that level, the bar records Exit_Reason
\* "Stop Loss", Holdings 0 and Cash = prior cash + contracts * value * 100,
\* and the position is closed.
C9_StopLoss ==
    [][(pc = "loop" /\ option_signal.strategy \in SingleLegKinds) =>
        \A gap \in DateGaps, close \in CloseValues, next_signal \in SignalValues :
          Bar(gap, close, next_signal) =>
            LET p == option_signal.option.lastPrice
                days_held == current_date + gap - entry_date
                value == StatedValue(option_signal, close, days_held)
            IN  /\ (~Open(position) /\ Open(position')) =>
                       /\ stop_loss_price' = p * (100 - stop_loss_pct)
                       /\ Last(df').Stop_Loss = p * (100 - stop_loss_pct)
                /\ (Open(position) /\ value <= stop_loss_price) =>
                       /\ pc' = "loop"
                       /\ Last(df').Exit_Reason = "Stop Loss"
                       /\ Last(df').Holdings = 0
                       /\ Last(df').Cash = Last(df).Cash + (position * value * 3) \div 10
                       /\ position' = 0]_vars

\* premium 2.50 and stop_loss_pct 0.5: stop level 1.25, and the position was
\* stopped out on the last bar
C9_Witness ==
    /\ pc = "loop"
    /\ option_signal.strategy \in SingleLegKinds
    /\ option_signal.option.lastPrice = 250
    /\ stop_loss_pct = 50
    /\ stop_loss_price = 12500
    /\ Len(df) >= 3
    /\ Last(df).Exit_Reason = "Stop Loss"
    /\ Last(df).Holdings = 0
    /\ Open(df[Len(df) - 1].Position)

\* net credit per share of a credit position, in cents
StatedNetCredit(sig) ==
    IF sig.strategy = "IRON_CONDOR"
    THEN (sig.sell_call.lastPrice + sig.sell_put.lastPrice)
         - (sig.buy_call.lastPrice + sig.buy_put.lastPrice)
    ELSE sig.sell_option.lastPrice - sig.buy_option.lastPrice

\* C10: on a bar on which an open position has days_held >= max_days_to_hold
\* and neither the stop-loss nor the take-profit condition holds, the bar
\* records Exit_Reason "Max Days", the position is closed, and the cash is
\* prior cash + contracts * value * 100 for a single leg, and
\* initial capital + credit received * min(days_held, 30) / 30 for a credit
\* spread or an iron condor.
C10_MaxDays ==
    [][(pc = "loop" /\ Open(position)) =>
        \A gap \in DateGaps, close \in CloseValues, next_signal \in SignalValues :
          Bar(gap, close, next_signal) =>
            LET days_held == current_date + gap - entry_date
                sig == option_signal
            IN  ( /\ days_held >= max_days_to_hold
                  /\ ~ExitConditionHolds("Stop Loss", sig, close, days_held, signal)
                  /\ ~ExitConditionHolds("Take Profit", sig, close, days_held, signal) )
                =>
                /\ Last(df').Exit_Reason = "Max Days"
                /\ Last(df').Holdings = 0
                /\ position' = 0
                /\ Last(df').Cash =
                      IF sig.strategy \in SingleLegKinds
                      THEN Last(df).Cash
                           + (position * StatedValue(sig, close, days_held) * 3) \div 10
                      ELSE Dollars(initial_capital)
                           + position * StatedNetCredit(sig)
                             * (IF days_held < 30 THEN days_held ELSE 30)]_vars

\* a credit position closed at the maximum holding period with part of its
\* credit realized
C10_Witness ==
    /\ pc = "loop"
    /\ option_signal.strategy \in CreditSpreadKinds \cup {"IRON_CONDOR"}
    /\ Len(df) >= 3
    /\ Last(df).Exit_Reason = "Max Days"
    /\ Last(df).Cash > Dollars(initial_capital)
    /\ Open(df[Len(df) - 1].Position)

----------------------------------------------------------------------------
(* One call of generate_signals and of OptionsBacktest.run over several symbols *)

\* the number of symbols of a call
MaxSymbols == 2

\* a call further out than FarCall, for chains that are not in strike order
WingCall == Contract(11500, 20, 60, 5, 1, -2, 500, 50)

\* one bar of a price table: days since the bar before, Close, Signal
PriceBar(gap, close, bar_signal) == [gap |-> gap, Close |-> close, Signal |-> bar_signal]

\* a table whose first bar carries a buy signal, and one without any signal
BuyBars == << PriceBar(0, 10250, 1), PriceBar(1, 10250, 0), PriceBar(4, 10000, 0) >>

QuietBars == << PriceBar(0, 10250, 0), PriceBar(1, 10250, 0), PriceBar(4, 10000, 0) >>

SymbolCase(direction, options_data, bars) ==
    [technical |-> direction, chain |-> options_data, bars |-> bars]

SymbolCases ==
    { SymbolCase("bullish", PlainChain(FullCalls(30), FullPuts(30)), BuyBars),
      SymbolCase("bearish", PlainChain(FullCalls(30), FullPuts(30)), BuyBars),
      SymbolCase("bullish", PlainChain(FullCalls(60), FullPuts(60)), BuyBars),
      SymbolCase("neutral", PlainChain(FullCalls(30), FullPuts(30)), BuyBars),
      SymbolCase("bullish", PlainChain(<<AtmCall(60)>>, <<AtmPut(60)>>), BuyBars),
      SymbolCase("bullish", PlainChain(<<AtmCall(60)>>, <<AtmPut(60)>>), QuietBars),
      SymbolCase("bullish", PlainChain(<<>>, <<>>), BuyBars),
      SymbolCase("bullish", PlainChain(<<AtmCall(30), AtmCall(60)>>, <<AtmPut(30)>>), BuyBars),
      SymbolCase("neutral", PlainChain(<<OtmCall, WingCall, FarCall>>, <<OtmPut, FarPut>>),
                 BuyBars),
      SymbolCase("neutral", GreekChain(FullCalls(30), <<AtmPut(30), OtmPut, DeepPut>>),
                 BuyBars) }

\* the rows of the loop over the bars of one symbol, from the rows reached so far
RECURSIVE RunBars(_, _, _, _, _, _)
RunBars(sig, cfg, bars, rows, loc, date) ==
    IF Len(rows) = Len(bars) THEN [outcome |-> "ok", df |-> rows]
    ELSE LET i    == Len(rows) + 1
             day  == date + bars[i].gap
             out  == BarBody(sig, BlankRow(Dollars(cfg.initial_capital)), rows[i - 1], loc,
                             cfg.stop_loss_pct, cfg.take_profit_pct, cfg.max_days_to_hold,
                             cfg.initial_capital, day, bars[i].Close, bars[i - 1].Signal)
         IN  IF out.outcome = "raise" THEN [outcome |-> "raise", df |-> rows]
             ELSE RunBars(sig, cfg, bars, Append(rows, FinishRow(out)), out.loc, day)

\* a loop body that starts from the portfolio the symbol before ended with
\* instead of initial_capital
RunSymbolFrameCarried(sig, cfg, bars) ==
    LET capital == IF next_symbol - 1 \in DOMAIN all_results
                   THEN all_results[next_symbol - 1].Final_Portfolio
                   ELSE Dollars(cfg.initial_capital)
    IN  RunBars(sig, cfg, bars, << BlankRow(capital) >>, Locals(0, NoDate, 0, 0), 0)

\* the body of "for symbol, df in signals.items()" for a symbol that has a signal
RunSymbolFrame(sig, cfg, bars) ==
    RunBars(sig, cfg, bars, << BlankRow(Dollars(cfg.initial_capital)) >>,
            Locals(0, NoDate, 0, 0), 0)

InitSymbols ==
    /\ symbols \in [1..MaxSymbols -> SymbolCases]
    /\ strategy_config \in {RuleConfig, DecreasingConfig}
    /\ technical = "neutral"
    /\ chain = PlainChain(<<>>, <<>>)
    /\ last_close = 10000
    /\ stop_loss_pct = DefaultRunConfig.stop_loss_pct
    /\ take_profit_pct = DefaultRunConfig.take_profit_pct
    /\ max_days_to_hold = DefaultRunConfig.max_days_to_hold
    /\ initial_capital = DefaultRunConfig.initial_capital
    /\ option_signal = NoSignal
    /\ optimized_trade = NoTrade
    /\ chain_columns = ChainColumns(chain)
    /\ df = <<>>
    /\ current_date = 0
    /\ signal = 0
    /\ position = 0
    /\ entry_date = NoDate
    /\ stop_loss_price = 0
    /\ take_profit_price = 0
    /\ results = NoResults
    /\ options_signals = <<>>
    /\ all_results = <<>>
    /\ next_symbol = 1
    /\ indicators = NoIndicators
    /\ tech_config = DefaultTechConfig
    /\ pc = "signals"
    /\ FreshPlatform

\* one iteration of "for symbol, df in data_dict.items()" of generate_signals;
\* an exception of the selection is caught and leaves the symbol without a signal
GenerateSignalsSymbol ==
    /\ pc = "signals"
    /\ next_symbol <= Len(symbols)
    /\ LET s == symbols[next_symbol]
       IN  options_signals' =
              Append(options_signals,
                     SelectOptionsStrategy(s.technical, s.bars[Len(s.bars)].Close,
                                           s.chain, strategy_config))
    /\ IF next_symbol = Len(symbols)
       THEN pc' = "run" /\ next_symbol' = 1
       ELSE pc' = pc /\ next_symbol' = next_symbol + 1
    /\ UNCHANGED <<platform, inputs, option_signal, selection, frame, results, symbols, all_results>>

\* one iteration of "for symbol, df in signals.items()" of run; an exception
\* of the loop over the bars leaves run, and run returns nothing
RunSymbol ==
    /\ pc = "run"
    /\ next_symbol <= Len(symbols)
    /\ LET sig == options_signals[next_symbol]
           cfg == RunConfig(stop_loss_pct, take_profit_pct, max_days_to_hold,
                            initial_capital)
           out == RunSymbolFrame(sig, cfg, symbols[next_symbol].bars)
       IN  IF sig = NoSignal
           THEN \* symbol not in options_signals: continue
                /\ all_results' = all_results
                /\ next_symbol' = next_symbol + 1
                /\ pc' = pc
           ELSE IF out.outcome = "raise"
           THEN /\ pc' = "raised"
                /\ UNCHANGED <<all_results, next_symbol>>
           ELSE /\ all_results' =
                      all_results @@
                      (next_symbol :> [Strategy |-> sig.strategy,
                                       Final_Portfolio |-> out.df[Len(out.df)].Portfolio,
                                       Sharpe_Ratio |-> SharpeRatio(out.df),
                                       Data |-> out.df,
                                       Exit_Reasons |-> ExitReasonCounts(out.df)])
                /\ next_symbol' = next_symbol + 1
                /\ pc' = pc
    /\ UNCHANGED <<platform, inputs, option_signal, selection, frame, results, symbols, options_signals>>

\* "return results"
ReturnResults ==
    /\ pc = "run"
    /\ next_symbol = Len(symbols) + 1
    /\ pc' = "returned"
    /\ UNCHANGED <<platform, inputs, option_signal, selection, frame, results, batch>>

NextSymbols == GenerateSignalsSymbol \/ RunSymbol \/ ReturnResults

SpecSymbols == InitSymbols /\ [][NextSymbols]_vars

----------------------------------------------------------------------------
(* The technical analyzer alone *)

\* SMA20 / SMA50 pairs, RSI values around both limits, MACD / MACD_Signal
\* pairs, and band widths with their middles for the last two bars
SmaPairs == { <<100, 100>>, <<105, 100>>, <<95, 100>> }

RsiValues == {25, 30, 50, 70, 75}

MacdPairs == { <<0, 0>>, <<1, 0>>, <<-1, 0>> }

\* <<width, middle, width_prev, middle_prev>>: expanding, equal, contracting,
\* and a wider band on a higher middle (relatively narrower)
BandPairs == { <<6, 100, 4, 100>>, <<4, 100, 4, 100>>, <<4, 100, 6, 100>>, <<6, 200, 4, 100>> }

IndicatorCases ==
    { Indicators(sma[1], sma[2], rsi, macd[1], macd[2], bb[1], bb[2], bb[3], bb[4]) :
        sma \in SmaPairs, rsi \in RsiValues, macd \in MacdPairs, bb \in BandPairs }

TechConfigs ==
    { TechConfig(a, b, c, d) : a \in BOOLEAN, b \in BOOLEAN, c \in BOOLEAN, d \in BOOLEAN }

InitAnalyze ==
    /\ indicators \in IndicatorCases
    /\ tech_config \in TechConfigs
    /\ technical = "None"
    /\ chain = PlainChain(<<>>, <<>>)
    /\ strategy_config = DefaultSelectorConfig
    /\ last_close = 10000
    /\ stop_loss_pct = DefaultRunConfig.stop_loss_pct
    /\ take_profit_pct = DefaultRunConfig.take_profit_pct
    /\ max_days_to_hold = DefaultRunConfig.max_days_to_hold
    /\ initial_capital = DefaultRunConfig.initial_capital
    /\ option_signal = NoSignal
    /\ optimized_trade = NoTrade
    /\ chain_columns = ChainColumns(chain)
    /\ df = <<>>
    /\ current_date = 0
    /\ signal = 0
    /\ position = 0
    /\ entry_date = NoDate
    /\ stop_loss_price = 0
    /\ take_profit_price = 0
    /\ results = NoResults
    /\ symbols = <<>>
    /\ options_signals = <<>>
    /\ all_results = <<>>
    /\ next_symbol = 0
    /\ pc = "analyze"
    /\ FreshPlatform

\* "signal = self._analyze_technicals(df)"
Analyze ==
    /\ pc = "analyze"
    /\ technical' = AnalyzeTechnicals(indicators, tech_config)
    /\ pc' = "analyzed"
    /\ UNCHANGED <<last_close, chain, strategy_config, stop_loss_pct, take_profit_pct,
                   max_days_to_hold, initial_capital, indicators, tech_config,
                   option_signal, selection, frame, results, batch, platform>>

NextAnalyze == Analyze

SpecAnalyze == InitAnalyze /\ [][NextAnalyze]_vars

----------------------------------------------------------------------------
(* OrderExecutor.process_signals against the paper platform *)

\* number of process_signals calls explored
MaxCalls == 3

\* the symbols of the signals dict
OrderSymbols == {"AAA", "BBB"}

\* signals of each kind the executor has a case for, one it has none for,
\* and an iron condor without its long call
OrderSignals ==
    { [NoSignal EXCEPT !.strategy = "LONG_CALL", !.option = Leg(10000, 2000)],
      [NoSignal EXCEPT !.strategy = "LONG_PUT", !.option = Leg(10000, 250)],
      [NoSignal EXCEPT !.strategy = "BULL_PUT_SPREAD",
                       !.sell_option = Leg(9500, 100), !.buy_option = Leg(9000, 40)],
      [NoSignal EXCEPT !.strategy = "BEAR_CALL_SPREAD",
                       !.sell_option = Leg(10500, 100), !.buy_option = Leg(11000, 40)],
      [NoSignal EXCEPT !.strategy = "IRON_CONDOR",
                       !.sell_call = Leg(10500, 100), !.buy_call = Leg(11000, 40),
                       !.sell_put = Leg(9500, 100), !.buy_put = Leg(9000, 40)],
      [NoSignal EXCEPT !.strategy = "IRON_CONDOR",
                       !.sell_call = Leg(10500, 100),
                       !.sell_put = Leg(9500, 100), !.buy_put = Leg(9000, 40)],
      [NoSignal EXCEPT !.strategy = "LONG_STRADDLE",
                       !.call = Leg(10000, 250), !.put = Leg(10000, 250)] }

\* the items a symbol can contribute: every signal with its 'symbol' key, and
\* a signal as the selector returns it, without that key
SignalItems(symbol) ==
    { SignalItem(symbol, TRUE, sig) : sig \in OrderSignals }
        \cup { SignalItem(symbol, FALSE,
                          [NoSignal EXCEPT !.strategy = "LONG_CALL", !.option = Leg(10000, 250)]) }

\* the signals dicts: items in insertion order, one per symbol at most
SignalDicts ==
    { <<>> }
        \cup { <<a>> : a \in UNION { SignalItems(s) : s \in OrderSymbols } }
        \cup { <<a, b>> : a \in SignalItems("AAA"), b \in SignalItems("BBB") }
        \cup { <<b, a>> : a \in SignalItems("AAA"), b \in SignalItems("BBB") }

InitOrders ==
    /\ technical = "None"
    /\ chain = PlainChain(<<>>, <<>>)
    /\ strategy_config = DefaultSelectorConfig
    /\ last_close = 10000
    /\ stop_loss_pct = DefaultRunConfig.stop_loss_pct
    /\ take_profit_pct = DefaultRunConfig.take_profit_pct
    /\ max_days_to_hold = DefaultRunConfig.max_days_to_hold
    /\ initial_capital = DefaultRunConfig.initial_capital
    /\ Start

\* process_signals(signals)
ProcessSignals(signals) ==
    /\ calls_made < MaxCalls
    /\ LET out == ProcessItems(Platform(positions, account_data, orders), signals, <<>>)
       IN  /\ positions' = out.platform.positions
           /\ account_data' = out.platform.account_data
           /\ orders' = out.platform.orders
           /\ executed_orders' = out.executed_orders
    /\ calls_made' = calls_made + 1
    /\ UNCHANGED <<inputs, option_signal, selection, frame, pc, results, batch>>

NextOrders == \E signals \in SignalDicts : ProcessSignals(signals)

SpecOrders == InitOrders /\ [][NextOrders]_vars

----------------------------------------------------------------------------
(* Properties of the selector and the scorers *)

\* the rows of a frame with the liquidity columns raised to the thresholds
AllLiquid(rows) ==
    [i \in 1..Len(rows) |->
        [rows[i] EXCEPT !.openInterest = min_open_interest, !.volume = min_volume]]

\* the chain as the scorer sees it when the liquidity filter is not applied
Unfiltered(options_data) ==
    [options_data EXCEPT !.calls = AllLiquid(options_data.calls),
                         !.puts = AllLiquid(options_data.puts)]

NoneLiquid(rows) == \A i \in 1..Len(rows) : ~IsLiquid(rows[i])

\* C11: when no contract of the candidate set passes the liquidity filter and
\* the scorer finds a trade on the unfiltered candidates, the directional
\* scorer and the theta-decay scorer return a trade, not None.
C11_LiquidityFallback ==
    (pc = "selected" /\ UsesGreeks(chain, strategy_config) /\ chain.hasLiquidity) =>
        LET market_signal == MarketSignal(technical, strategy_config)
            risk_capital  == strategy_config.risk_capital
        IN  /\ ( /\ market_signal = "bullish"
                 /\ NoneLiquid(chain.calls)
                 /\ OptimizeDirectionalTrade(Unfiltered(chain), "bullish", risk_capital)
                       # NoTrade )
               => optimized_trade # NoTrade
            /\ ( /\ market_signal = "bearish"
                 /\ NoneLiquid(chain.puts)
                 /\ OptimizeDirectionalTrade(Unfiltered(chain), "bearish", risk_capital)
                       # NoTrade )
               => optimized_trade # NoTrade
            /\ ( /\ market_signal = "neutral"
                 /\ strategy_config.volatility_bias = "neutral"
                 /\ NoneLiquid(chain.calls) /\ NoneLiquid(chain.puts)
                 /\ OptimizeThetaDecayTrade(Unfiltered(chain), risk_capital) # NoTrade )
               => optimized_trade # NoTrade

\* whether the simulation of the symbol at position i, taken alone, ends
\* without an error
SimulatesAlone(i) ==
    /\ options_signals[i] # NoSignal
    /\ RunSymbolFrame(options_signals[i],
                      RunConfig(stop_loss_pct, take_profit_pct, max_days_to_hold,
                                initial_capital),
                      symbols[i].bars).outcome = "ok"

\* C12: when a call of run over several symbols has ended, every symbol whose
\* own simulation does not fail has its results in what run returns, whatever
\* happened to the other symbols.
C12_FailureIsPerSymbol ==
    pc \in {"returned", "raised"} =>
        \A i \in 1..Len(symbols) :
            SimulatesAlone(i) => (pc = "returned" /\ i \in DOMAIN all_results)

\* an iron condor is what the configuration asks for under a neutral bias:
\* the decreasing-volatility scorer of the Greek path, or the rule-based default
IronCondorRequested(options_data, config) ==
    \/ UsesGreeks(options_data, config) /\ config.volatility_bias = "decreasing"
    \/ ~UsesGreeks(options_data, config) /\ config.neutral_default = "iron_condor"

\* no row of the frame lies beyond another one: whatever the short leg is,
\* there is no further out-of-the-money row for the long leg
OneStrike(rows) == \A i, j \in 1..Len(rows) : rows[i].strike = rows[j].strike

\* C13: under a neutral bias with an iron condor requested and no further
\* out-of-the-money long leg on either side of the chain, the selector returns
\* no signal for the symbol.
C13_NoLongLegNoSignal ==
    ( /\ pc = "selected"
      /\ chain.hasExpiry
      /\ MarketSignal(technical, strategy_config) = "neutral"
      /\ IronCondorRequested(chain, strategy_config)
      /\ chain.calls # <<>> /\ chain.puts # <<>>
      /\ OneStrike(chain.calls) /\ OneStrike(chain.puts) )
    => option_signal = NoSignal

\* the rule-based path has rows to choose from
RuleBasedChain(options_data) ==
    options_data.hasExpiry /\ options_data.calls # <<>> /\ options_data.puts # <<>>

\* the at-the-money row of a frame, stated on its own: no row is nearer to
\* the price, and no earlier row is as near
IsAtm(rows, i, price) ==
    /\ \A j \in 1..Len(rows) : Abs(rows[i].strike - price) <= Abs(rows[j].strike - price)
    /\ \A j \in 1..(i - 1) : Abs(rows[j].strike - price) # Abs(rows[i].strike - price)

\* C14: with Greek optimization disabled, a bullish bias and the at-the-money
\* call's implied volatility not above the bullish threshold (default strategy
\* names), the selector emits LONG_CALL on the call nearest to the current
\* price, with greek_optimized false.
C14_LongCallAtTheMoney ==
    ( /\ pc = "selected"
      /\ RuleBasedChain(chain)
      /\ ~strategy_config.use_greek_optimization
      /\ MarketSignal(technical, strategy_config) = "bullish"
      /\ strategy_config.bullish_low_iv = "long_call" )
    => \A i \in 1..Len(chain.calls) :
          (IsAtm(chain.calls, i, last_close)
           /\ chain.calls[i].impliedVolatility <= iv_threshold)
          => /\ option_signal.strategy = "LONG_CALL"
             /\ option_signal.signal = "BULLISH"
             /\ option_signal.option = RowLeg(chain.calls[i])
             /\ ~option_signal.greek_optimized
             /\ \A j \in 1..Len(chain.calls) :
                   Abs(option_signal.option.strike - last_close)
                      <= Abs(chain.calls[j].strike - last_close)

\* two calls at the same distance from the price, the first one with low
\* implied volatility and the second one with high, and LONG_CALL emitted
C14_Witness ==
    /\ pc = "selected"
    /\ RuleBasedChain(chain)
    /\ ~strategy_config.use_greek_optimization
    /\ MarketSignal(technical, strategy_config) = "bullish"
    /\ Len(chain.calls) = 2
    /\ chain.calls[1].strike = chain.calls[2].strike
    /\ chain.calls[1].impliedVolatility <= iv_threshold
    /\ chain.calls[2].impliedVolatility > iv_threshold
    /\ option_signal.strategy = "LONG_CALL"

\* the scorer result is a credit spread or an iron condor
CreditTrade(trade) ==
    trade.strategy \in {"call_credit_spread", "put_credit_spread", "iron_condor"}

\* the width of a built trade, from its strikes (widest side for the condor)
SpreadWidth(trade) ==
    IF trade.strategy = "iron_condor"
    THEN Max(trade.long_call_strike - trade.short_call_strike,
             trade.short_put_strike - trade.long_put_strike)
    ELSE Abs(trade.long_strike - trade.short_strike)

\* C15: every credit spread and iron condor built by a Greek scorer has
\* max_risk = spread width - net credit and contracts = max(1, floor(risk
\* capital / (max_risk * 100))); net credit 1.20, width 5 and risk capital
\* 10000 give max_risk 3.80 and 26 contracts; a budget below one contract
\* gives 1 contract.
C15_CreditSpreadSizing ==
    (pc = "selected" /\ CreditTrade(optimized_trade)) =>
        LET risk_capital == strategy_config.risk_capital
            width        == SpreadWidth(optimized_trade)
        IN  /\ optimized_trade.max_risk = width - optimized_trade.net_credit
            /\ optimized_trade.contracts
                  = Max(1, risk_capital \div optimized_trade.max_risk)
            /\ (optimized_trade.net_credit = 120 /\ width = 500 /\ risk_capital = 10000)
                  => (optimized_trade.max_risk = 380 /\ optimized_trade.contracts = 26)
            /\ (risk_capital < optimized_trade.max_risk) => optimized_trade.contracts = 1
            /\ option_signal.contracts = optimized_trade.contracts
            /\ option_signal.max_risk = optimized_trade.max_risk

\* the call credit spread of the example: net credit 1.20 on a width of 5
\* with a risk capital of 10000
C15_Witness ==
    /\ pc = "selected"
    /\ optimized_trade.strategy = "call_credit_spread"
    /\ strategy_config.risk_capital = 10000
    /\ optimized_trade.net_credit = 120
    /\ SpreadWidth(optimized_trade) = 500
    /\ optimized_trade.contracts = 26

\* the strategy kinds the rule-based path can return
RuleBasedKinds ==
    {"LONG_CALL", "LONG_PUT", "BULL_PUT_SPREAD", "BEAR_CALL_SPREAD", "IRON_CONDOR", "DEFAULT"}

\* C18: when Greek optimization is disabled, the chain carries no Greek fields
\* (calls empty or without a delta column) or the scorer returns none, the
\* selector falls through to the rule-based path and, for a chain with an
\* expiry and non-empty calls and puts, returns a signal with greek_optimized
\* false; greek_optimized is true exactly for signals built from a scorer
\* result.
C18_RuleBasedFallback ==
    pc = "selected" =>
        /\ ( /\ RuleBasedChain(chain)
             /\ \/ ~strategy_config.use_greek_optimization
                \/ chain.calls = <<>> \/ ~chain.hasGreeks
                \/ optimized_trade = NoTrade )
           => /\ option_signal # NoSignal
              /\ option_signal.strategy \in RuleBasedKinds
              /\ ~option_signal.greek_optimized
              /\ option_signal =
                    RuleBasedSignal(MarketSignal(technical, strategy_config), last_close,
                                    chain, strategy_config)
        /\ option_signal.greek_optimized <=> optimized_trade # NoTrade
        /\ option_signal.greek_optimized => option_signal # NoSignal

\* the scorer was called on a usable chain and returned none, and the
\* rule-based signal was returned
C18_Witness ==
    /\ pc = "selected"
    /\ RuleBasedChain(chain)
    /\ UsesGreeks(chain, strategy_config)
    /\ optimized_trade = NoTrade
    /\ option_signal # NoSignal
    /\ ~option_signal.greek_optimized

\* the strategy names the rule-based path recognises
RecognisedNames ==
    {"long_call", "long_put", "bull_put_spread", "bear_call_spread", "iron_condor"}

\* the name the configuration gives for the bias and the IV regime, read from
\* the at-the-money call (bullish) or put (bearish)
ConfiguredName(market_signal, atm_call, atm_put, config) ==
    IF market_signal = "bullish"
    THEN IF atm_call.impliedVolatility > iv_threshold
         THEN config.bullish_high_iv ELSE config.bullish_low_iv
    ELSE IF market_signal = "bearish"
    THEN IF atm_put.impliedVolatility > iv_threshold
         THEN config.bearish_high_iv ELSE config.bearish_low_iv
    ELSE config.neutral_default

\* C19: an unrecognised strategy name configured for the current bias and IV
\* regime does not fail the selection: the rule-based path returns a signal of
\* kind DEFAULT carrying the at-the-money call and put.
C19_UnknownNameDefaults ==
    (pc = "selected" /\ RuleBasedChain(chain) /\ optimized_trade = NoTrade) =>
        \A i \in 1..Len(chain.calls), j \in 1..Len(chain.puts) :
            ( /\ IsAtm(chain.calls, i, last_close)
              /\ IsAtm(chain.puts, j, last_close)
              /\ ConfiguredName(MarketSignal(technical, strategy_config), chain.calls[i],
                                chain.puts[j], strategy_config) \notin RecognisedNames )
            => /\ option_signal.strategy = "DEFAULT"
               /\ option_signal.call = RowLeg(chain.calls[i])
               /\ option_signal.put = RowLeg(chain.puts[j])
               /\ option_signal.signal = Upper(MarketSignal(technical, strategy_config))
               /\ ~option_signal.greek_optimized

\* a bullish selection in the high-IV regime whose configured name is unknown
C19_Witness ==
    /\ pc = "selected"
    /\ RuleBasedChain(chain)
    /\ MarketSignal(technical, strategy_config) = "bullish"
    /\ strategy_config.bullish_high_iv \notin RecognisedNames
    /\ \E i \in 1..Len(chain.calls) :
          IsAtm(chain.calls, i, last_close) /\ chain.calls[i].impliedVolatility > iv_threshold
    /\ option_signal.strategy = "DEFAULT"
    /\ option_signal.call.present /\ option_signal.put.present

\* C20: strategy selection treats the option-chain snapshot as read-only:
\* after generate_signals (and the scorers it calls) has returned, the columns
\* of the calls and puts frames passed in are the columns they had before.
C20_ChainIsReadOnly ==
    pc = "selected" => chain_columns = ChainColumns(chain)

\* the strikes of a frame strictly beyond a short strike, on the call side
\* (above) and on the put side (below)
StrikesAbove(rows, strike) == {rows[k].strike : k \in {n \in 1..Len(rows) : rows[n].strike > strike}}

StrikesBelow(rows, strike) == {rows[k].strike : k \in {n \in 1..Len(rows) : rows[n].strike < strike}}

\* the strikes of the rows of a frame
Strikes(rows) == {rows[k].strike : k \in 1..Len(rows)}

\* C24: every multi-leg trade a Greek scorer returns has its long leg strictly
\* further out than its short leg (iron condor: long call > short call >
\* current price and long put < short put < current price; call credit spread:
\* long > short; put credit spread: long < short), on strikes of the chain;
\* and the scorer returns none when the long leg it needs does not exist.
C24_LongLegFurtherOut ==
    pc = "selected" =>
        LET trade == optimized_trade
            price == chain.current_price
            market_signal == MarketSignal(technical, strategy_config)
            liquid_calls == SelectSeq(chain.calls, IsLiquid)
            liquid_puts  == SelectSeq(chain.puts, IsLiquid)
        IN  /\ trade.strategy = "iron_condor" =>
                 /\ trade.long_call_strike > trade.short_call_strike
                 /\ trade.short_call_strike > price
                 /\ trade.long_put_strike < trade.short_put_strike
                 /\ trade.short_put_strike < price
                 /\ {trade.long_call_strike, trade.short_call_strike} \subseteq Strikes(chain.calls)
                 /\ {trade.long_put_strike, trade.short_put_strike} \subseteq Strikes(chain.puts)
            /\ trade.strategy = "call_credit_spread" =>
                 /\ trade.long_strike > trade.short_strike
                 /\ {trade.long_strike, trade.short_strike} \subseteq Strikes(liquid_calls)
            /\ trade.strategy = "put_credit_spread" =>
                 /\ trade.long_strike < trade.short_strike
                 /\ {trade.long_strike, trade.short_strike} \subseteq Strikes(liquid_puts)
            \* no strike beyond any possible short leg: nothing is built
            /\ ( /\ UsesGreeks(chain, strategy_config)
                 /\ market_signal \notin {"bullish", "bearish"}
                 /\ strategy_config.volatility_bias = "decreasing"
                 /\ \/ Cardinality(StrikesAbove(chain.calls, price)) <= 1
                    \/ Cardinality(StrikesBelow(chain.puts, price)) <= 1 )
               => trade = NoTrade
            /\ ( /\ UsesGreeks(chain, strategy_config)
                 /\ market_signal \notin {"bullish", "bearish"}
                 /\ strategy_config.volatility_bias \notin {"increasing", "decreasing"}
                 /\ Cardinality(Strikes(liquid_calls)) <= 1
                 /\ Cardinality(Strikes(liquid_puts)) <= 1 )
               => trade = NoTrade

\* a put credit spread was built: its long put lies below its short put
C24_Witness ==
    /\ pc = "selected"
    /\ optimized_trade.strategy = "put_credit_spread"
    /\ optimized_trade.long_strike < optimized_trade.short_strike
    /\ Len(chain.puts) = 2

----------------------------------------------------------------------------
(* Properties of a call over several symbols *)

\* two symbols of the call with the same price table, chain snapshot and
\* (shared) configuration: two runs on identical inputs
SameInputs(i, j) == i # j /\ symbols[i] = symbols[j]

C23_ProtectiveLegsNextStrike ==
    \A i \in 1..Len(options_signals) :
        LET sig   == options_signals[i]
            above == StrikesAbove(symbols[i].chain.calls, sig.sell_call.strike)
            below == StrikesBelow(symbols[i].chain.puts, sig.sell_put.strike)
        IN  (sig.strategy = "IRON_CONDOR" /\ ~sig.greek_optimized) =>
                /\ IF above = {} THEN sig.buy_call = NoLeg
                   ELSE /\ sig.buy_call.present
                        /\ sig.buy_call.strike \in above
                        /\ \A k \in above : sig.buy_call.strike <= k
                /\ IF below = {} THEN sig.buy_put = NoLeg
                   ELSE /\ sig.buy_put.present
                        /\ sig.buy_put.strike \in below
                        /\ \A k \in below : sig.buy_put.strike >= k

----------------------------------------------------------------------------
(* Properties of the performance record *)

\* the portfolio never changes over a run of at least three bars
ConstantPortfolio(rows) ==
    /\ Len(rows) >= 3
    /\ rows[1].Portfolio # 0
    /\ \A i \in 1..Len(rows) : rows[i].Portfolio = rows[1].Portfolio

\* C17: when the standard deviation of the per-bar portfolio returns over the
\* whole run is 0 (for instance the portfolio never changes), the reported
\* Sharpe_Ratio is exactly 0 and nothing is divided by zero.
C17_SharpeZeroStd ==
    pc = "done" =>
        /\ ReturnsStd(df) = "zero" => results.Sharpe_Ratio = SharpeZero
        /\ ConstantPortfolio(df) => results.Sharpe_Ratio = SharpeZero
        /\ results.Sharpe_Ratio.kind # "division_by_zero"

\* a finished run of at least three bars whose portfolio never changed
C17_Witness ==
    /\ pc = "done"
    /\ ConstantPortfolio(df)
    /\ ReturnsStd(df) = "zero"
    /\ results.Sharpe_Ratio = SharpeZero

----------------------------------------------------------------------------
(* Further properties of OptionsBacktest.run *)

\* the strategies whose open position is a received credit
CreditKinds == CreditSpreadKinds \cup {"IRON_CONDOR"}

\* profitFraction = 1 - max(0, 1 - daysHeld / 30), in thirtieths
StatedProfitFraction(days_held) ==
    30 - (IF 30 - days_held > 0 THEN 30 - days_held ELSE 0)

\* the take-profit threshold in thirtieths: 0.7 for the vertical spreads,
\* 0.6 for the iron condor
StatedThreshold(strategy) == IF strategy = "IRON_CONDOR" THEN 18 ELSE 21

\* C22: an open vertical credit spread takes profit (Exit_Reason "Take
\* Profit", position closed, the threshold fraction of the credit kept) on the
\* bar on which 1 - max(0, 1 - daysHeld / 30) >= 0.7, an open iron condor on
\* the bar on which it is >= 0.6; on a bar below the threshold no Take Profit
\* is recorded for these strategies.
C22_CreditTakeProfit ==
    [][(pc = "loop" /\ Open(position) /\ option_signal.strategy \in CreditKinds) =>
        \A gap \in DateGaps, close \in CloseValues, next_signal \in SignalValues :
          Bar(gap, close, next_signal) =>
            LET days_held == current_date + gap - entry_date
                strategy  == option_signal.strategy
                credit_received == Last(df).Cash - Dollars(initial_capital)
            IN  /\ StatedProfitFraction(days_held) >= StatedThreshold(strategy) =>
                       /\ Last(df').Exit_Reason = "Take Profit"
                       /\ Last(df').Holdings = 0
                       /\ position' = 0
                       /\ Last(df').Cash =
                             Dollars(initial_capital)
                             + (credit_received * StatedThreshold(strategy)) \div 30
                /\ StatedProfitFraction(days_held) < StatedThreshold(strategy) =>
                       Last(df').Exit_Reason # "Take Profit"]_vars

\* an iron condor that took profit at 60% of the credit on a bar where a
\* vertical spread would not have (18 <= days held < 21)
C22_Witness ==
    /\ pc = "loop"
    /\ option_signal.strategy = "IRON_CONDOR"
    /\ Len(df) >= 3
    /\ Open(df[Len(df) - 1].Position)
    /\ Last(df).Days_Held >= 18 /\ Last(df).Days_Held < 21
    /\ Last(df).Exit_Reason = "Take Profit"
    /\ Last(df).Cash > Dollars(initial_capital)

\* an iron condor signal that lacks a protective leg
NullLegCondor(sig) ==
    sig.strategy = "IRON_CONDOR" /\ (~sig.buy_call.present \/ ~sig.buy_put.present)

\* the row of a bar on which nothing is held and nothing has happened
FlatRow(row, capital) ==
    /\ row.Position = 0
    /\ row.Cash = capital /\ row.Holdings = 0 /\ row.Portfolio = capital
    /\ row.Exit_Reason = "None"

\* C25: for an IRON_CONDOR signal with a null buy_call or buy_put the
\* simulator skips the entry on every bar without raising: the position stays
\* flat, the portfolio equals the initial capital on every bar, and no exit
\* reason is recorded.
C25_NullLegCondorStaysFlat ==
    NullLegCondor(option_signal) =>
        /\ pc # "raised"
        /\ position = 0
        /\ \A k \in 1..Len(df) : FlatRow(df[k], Dollars(initial_capital))
        /\ pc = "done" =>
              /\ results.Exit_Reasons = <<>>
              /\ results.Final_Portfolio = Dollars(initial_capital)

\* a finished run of several bars on a condor signal without its long call
C25_Witness ==
    /\ pc = "done"
    /\ NullLegCondor(option_signal)
    /\ Len(df) >= 3
    /\ results.Strategy = "IRON_CONDOR"
    /\ results.Final_Portfolio = Dollars(initial_capital)

\* C26: realized cash persists after an exit: on every bar after a closed
\* position on which no position is open and no entry occurs, the recorded
\* Cash and Portfolio equal those of the bar before (they do not revert to
\* the initial capital).
C26_RealizedCashPersists ==
    \A k \in 2..Len(df) :
        ( /\ \E j \in 1..(k - 1) : df[j].Exit_Reason \in ExitReasons
          /\ df[k - 1].Position = 0
          /\ df[k].Position = 0
          /\ df[k].Exit_Reason = "None" )
        => /\ df[k].Cash = df[k - 1].Cash
           /\ df[k].Portfolio = df[k - 1].Portfolio

\* C27: for every strategy kind the simulator can enter and for
\* max_days_to_hold >= 1, no bar ends with a non-zero recorded Position
\* whose days since entry are >= max_days_to_hold.
C27_NoPositionPastMaxDays ==
    ( /\ pc \in {"loop", "done"}
      /\ Len(df) >= 1
      /\ max_days_to_hold >= 1
      /\ Last(df).Position # 0 )
    => current_date - entry_date < max_days_to_hold

\* C28: for an open single-leg position entered at premium p > 0 the
\* simulated per-share option value on every bar is at least 0.5 * p;
\* with stop_loss_pct > 0.5 no bar exits with Stop Loss, and with
\* stop_loss_pct = 0.5 a Stop Loss exit happens only at days_held >= 5.
C28_OptionValueFloor ==
    [][(/\ pc = "loop"
        /\ Open(position)
        /\ option_signal.strategy \in SingleLegKinds
        /\ option_signal.option.lastPrice > 0) =>
        \A gap \in DateGaps, close \in CloseValues, next_signal \in SignalValues :
          Bar(gap, close, next_signal) =>
            LET days_held == current_date + gap - entry_date
                p         == option_signal.option.lastPrice
                option_value == OptionValue(option_signal.strategy, close,
                                            option_signal.option, days_held)
            IN  /\ 2 * option_value >= 100 * p
                /\ stop_loss_pct > 50 => Last(df').Exit_Reason # "Stop Loss"
                /\ (stop_loss_pct = 50 /\ Last(df').Exit_Reason = "Stop Loss")
                       => days_held >= 5]_vars

\* a position stopped out at stop_loss_pct = 0.5, five or more days after entry
C28_Witness ==
    /\ option_signal.strategy \in SingleLegKinds
    /\ stop_loss_pct = 50
    /\ Len(df) >= 2
    /\ Last(df).Exit_Reason = "Stop Loss"
    /\ Last(df).Days_Held >= 5
    /\ df[Len(df) - 1].Position > 0

\* the kinds the entry branch of the simulator has no case for
UnsimulatedKinds ==
    {"LONG_STRADDLE", "CALL_CREDIT_SPREAD", "PUT_CREDIT_SPREAD", "DEFAULT", "DIRECTIONAL"}

\* C29: for a signal whose kind is LONG_STRADDLE, CALL_CREDIT_SPREAD,
\* PUT_CREDIT_SPREAD, DEFAULT or the directional kind of the Greek path the
\* simulator never opens a position, whatever the signal series: Position is 0
\* and Portfolio equals the initial capital on every bar, and the exit-reason
\* histogram is empty.
C29_UnsimulatedKindsStayFlat ==
    (option_signal.strategy \in UnsimulatedKinds /\ pc \in {"loop", "done"}) =>
        /\ position = 0
        /\ \A k \in 1..Len(df) :
              /\ df[k].Position = 0
              /\ df[k].Portfolio = Dollars(initial_capital)
              /\ df[k].Exit_Reason = "None"
        /\ pc = "done" => results.Exit_Reasons = <<>>

\* a finished run of the full length on a directional signal of the Greek path
C29_Witness ==
    /\ pc = "done"
    /\ option_signal.strategy = "DIRECTIONAL"
    /\ Len(df) = MaxBars
    /\ results.Strategy = "DIRECTIONAL"
    /\ results.Exit_Reasons = <<>>

----------------------------------------------------------------------------
(* Properties of the order executor *)

\* C30: after any sequence of process_signals calls against the paper
\* platform, the number of positions held on the platform never exceeds
\* max_positions, including when one signal opens a multi-leg strategy.
C30_PositionsWithinLimit == Len(positions) <= max_positions

----------------------------------------------------------------------------
(* Properties of the technical analyzer *)

\* the components as the data model states them: trend in {-1, 0, 1},
\* momentum in -2..2, volatility in {-1, 1} when the Bollinger bands are used
ComponentsInRange(ind, cfg) ==
    /\ TrendSignal(ind, cfg) \in {-1, 0, 1}
    /\ MomentumSignal(ind, cfg) \in -2..2
    /\ cfg.use_bollinger => VolatilitySignal(ind, cfg) \in {-1, 1}

\* C21: the analyzer returns exactly one of bullish, bearish, neutral: bullish
\* iff trend * 0.4 + momentum * 0.3 + volatility * 0.3 > 0.2, bearish iff that
\* scalar < -0.2, neutral otherwise, with trend in {-1, 0, 1}, momentum in
\* -2..2 and volatility in {-1, +1}.
C21_AnalyzerClassifies ==
    pc = "analyzed" =>
        LET t == TrendSignal(indicators, tech_config)
            m == MomentumSignal(indicators, tech_config)
            v == VolatilitySignal(indicators, tech_config)
            scalar == 4 * t + 3 * m + 3 * v
        IN  /\ ComponentsInRange(indicators, tech_config)
            /\ technical \in {"bullish", "bearish", "neutral"}
            /\ technical = "bullish" <=> scalar > 2
            /\ technical = "bearish" <=> scalar < -2
            /\ technical = "neutral" <=> (scalar >= -2 /\ scalar <= 2)

\* the default configuration on a scalar of exactly the threshold (downtrend,
\* oversold RSI, expanding bands): neutral
C21_Witness ==
    /\ pc = "analyzed"
    /\ tech_config = DefaultTechConfig
    /\ TrendSignal(indicators, tech_config) = -1
    /\ MomentumSignal(indicators, tech_config) = 1
    /\ VolatilitySignal(indicators, tech_config) = 1
    /\ technical = "neutral"

====
